---------------------------- MODULE Spec2Model ----------------------------
(***************************************************************************)
(* A model of jsapy's exposure engines (src/src/jsapy/vibrations.py,       *)
(* noise.py) and of their batch entry points (vibration_tools.py,          *)
(* noise_tools.py).                                                        *)
(*                                                                         *)
(* Numbers.  Python floats are carried as fixed-point integers:            *)
(*   - vibration magnitudes and thresholds in 1/1000 m/s^2 (2.5 -> 2500);  *)
(*   - sound levels and thresholds in 1/100 dB (85.0 -> 8500);             *)
(*   - durations in whole hours (vibration) or whole minutes (noise).      *)
(* math.sqrt, math.log10 and 10**x are computed in that fixed point by the *)
(* operators ISqrt, TenLog10 and Pow10c below.                             *)
(*                                                                         *)
(* Python values.  A value read from a record with dict.get is one of      *)
(* None (key absent), a non-numeric object, or a number:                   *)
(*   [t |-> "none" | "str" | "num", v |-> Int].                            *)
(***************************************************************************)
EXTENDS Integers, Sequences, FiniteSets, TLC

VARIABLES
    pc,          \* "idle" | "loop" | "returned" | "raised": position of the batch call
    fn,          \* the batch entry point being executed ("none" when idle)
    tasks,       \* the argument of the call: [isList, items]
    eng,         \* the engine built by the call (its threshold configuration)
    idx,         \* number of list elements whose loop body has completed
    exposures,   \* the list `exposures` (hand-arm, noise)
    exposure_x,  \* the lists `exposure_x`, `exposure_y`, `exposure_z` (body)
    exposure_y,
    exposure_z,
    warns,       \* the advisories emitted by warnings.warn during the call, in order
    err,         \* the exception that left the call (NoErr when none)
    result,      \* the object returned by the call (NoResult when none)
    total_calls, \* how many times calculate_total ran during the call
    obj,         \* the last result object constructed directly (NoResult when none)
    shown,       \* the last rendering of a result: the method, what it raised, its text
    earlier,     \* history (SpecWithHistory): how the batch call before this one
                 \* ended, "none" | "returned" | "raised"
    rate_call    \* the last call of an accident-rate function: its arguments and what
                 \* it raised (NoRateCall once the caller has moved on)

vars == <<pc, fn, tasks, eng, idx, exposures, exposure_x, exposure_y, exposure_z,
          warns, err, result, total_calls, obj, shown, earlier, rate_call>>

(***************************************************************************)
(* Bounds of the model.                                                    *)
(***************************************************************************)
MaxLen == 3

(***************************************************************************)
(* Python values.                                                          *)
(***************************************************************************)
None == [t |-> "none", v |-> 0]
Str == [t |-> "str", v |-> 0]
Num(n) == [t |-> "num", v |-> n]

\* isinstance(val, (int, float))
IsNumeric(val) == val.t = "num"

\* `x if x is not None else d`
OrDefault(val, d) == IF val.t # "none" THEN val ELSE Num(d)

(***************************************************************************)
(* Fixed-point arithmetic.                                                 *)
(***************************************************************************)
Scale == 100 * 100

RECURSIVE SqrtSearch(_, _, _)
SqrtSearch(n, lo, hi) ==
    IF lo >= hi THEN lo
    ELSE LET mid == (lo + hi + 1) \div 2
         IN IF mid * mid <= n THEN SqrtSearch(n, mid, hi)
            ELSE SqrtSearch(n, lo, mid - 1)

\* math.sqrt on a non-negative integer: the greatest r with r*r <= n.
ISqrt(n) == SqrtSearch(n, 0, 46340)

RECURSIVE Pow10Int(_)
Pow10Int(q) == IF q <= 0 THEN 1 ELSE 10 * Pow10Int(q - 1)

\* 10^(d/10), 10^(d/100), 10^(d/1000) for d = 0..9, times Scale.
Tenths == <<10000, 12589, 15849, 19953, 25119, 31623, 39811, 50119, 63096, 79433>>
Hundredths == <<10000, 10233, 10471, 10715, 10965, 11220, 11482, 11749, 12023, 12303>>
Thousandths == <<10000, 10023, 10046, 10069, 10093, 10116, 10139, 10162, 10186, 10209>>

\* 10^(m/1000) * Scale for m in 0..999.
Mantissa(m) ==
    LET d1 == m \div 100
        d2 == (m \div 10) % 10
        d3 == m % 10
    IN (((Tenths[d1 + 1] * Hundredths[d2 + 1]) \div Scale) * Thousandths[d3 + 1]) \div Scale

\* 10 ** (c / 10) for a level of c/100 dB, times Scale: 10^(c/1000) * Scale.
Pow10c(c) ==
    LET q == c \div 1000
        m == c % 1000
    IN IF q >= 0 THEN Mantissa(m) * Pow10Int(q) ELSE Mantissa(m) \div Pow10Int(0 - q)

RECURSIVE Decade(_, _)
\* The greatest q with Pow10c(1000 * q) <= x, for x >= 1.
Decade(x, q) ==
    IF Pow10c(1000 * (q + 1)) <= x THEN Decade(x, q + 1)
    ELSE IF Pow10c(1000 * q) > x THEN Decade(x, q - 1)
    ELSE q

\* The greatest digit d in 0..9 with Pow10c(base + step * d) <= x.
Digit(x, base, step) ==
    CHOOSE d \in 0..9 :
        /\ Pow10c(base + step * d) <= x
        /\ d < 9 => Pow10c(base + step * (d + 1)) > x

\* The greatest c with Pow10c(c) <= x.
Log10Floor(x) ==
    LET q == Decade(x, 0)
        d1 == Digit(x, 1000 * q, 100)
        d2 == Digit(x, 1000 * q + 100 * d1, 10)
        d3 == Digit(x, 1000 * q + 100 * d1 + 10 * d2, 1)
    IN 1000 * q + 100 * d1 + 10 * d2 + d3

\* 10 * math.log10(x / Scale) in 1/100 dB, to the nearest step; math.log10
\* raises ValueError ("math domain error") for x <= 0, which callers test first.
Log10c(x) ==
    LET c == Log10Floor(x)
    IN IF Pow10c(c + 1) - x < x - Pow10c(c) THEN c + 1 ELSE c

\* 10 * math.log10(n / d) in 1/100 dB.
TenLog10(n, d) == Log10c((n * Scale) \div d)

RECURSIVE SumSeq(_)
SumSeq(s) == IF s = <<>> THEN 0 ELSE Head(s) + SumSeq(Tail(s))

\* np.sum(list_of_exposure**2)
SumSquares(s) == SumSeq([i \in 1..Len(s) |-> s[i] * s[i]])

Max3(a, b, c) ==
    IF a >= b /\ a >= c THEN a ELSE IF b >= c THEN b ELSE c


(***************************************************************************)
(* Exceptions and advisories.  A message is kept as its parts: the record  *)
(* id it starts with, the field it names and the wording that follows.     *)
(* An id is "<label>" or, for an unnamed record, "<label> <n>".            *)
(***************************************************************************)
NoId == [label |-> "", n |-> 0]
NoErr == [exc |-> "none", has_id |-> FALSE, id |-> NoId, field |-> "", text |-> ""]

\* raise exc(f"{id}... {field} {text}")
Raise(exc, id, field, text) ==
    [exc |-> exc, has_id |-> TRUE, id |-> id, field |-> field, text |-> text]

\* An exception raised by Python itself or by math: its message holds neither
\* a record id nor a field name.
NativeError(exc, text) ==
    [exc |-> exc, has_id |-> FALSE, id |-> NoId, field |-> "", text |-> text]

\* warnings.warn(f"{id}- Exposure time exceeds 8 hours.", UserWarning)
ExceedsWarning(id) ==
    [category |-> "UserWarning", id |-> id, text |-> "Exposure time exceeds 8 hours."]

(***************************************************************************)
(* Result objects.                                                         *)
(***************************************************************************)
NoResult == [type |-> "none"]

\* Mutant: the vibration flags compare with >= as the noise flags do.
VibraResult_ge(exposure_value, exposure_type, action_value, limit_value, unit) ==
    [type |-> "VibraResult",
     exposure_value |-> exposure_value,
     exposure_type |-> exposure_type,
     action_value |-> action_value,
     limit_value |-> limit_value,
     unit |-> unit,
     exceeds_action |-> exposure_value >= action_value,
     exceeds_limit |-> exposure_value >= limit_value]

VibraResult(exposure_value, exposure_type, action_value, limit_value, unit) ==
    [type |-> "VibraResult",
     exposure_value |-> exposure_value,
     exposure_type |-> exposure_type,
     action_value |-> action_value,
     limit_value |-> limit_value,
     unit |-> unit,
     exceeds_action |-> exposure_value > action_value,
     exceeds_limit |-> exposure_value > limit_value]

\* Python truthiness of an Optional[float]: None and 0.0 are falsy.
Truthy(val) == val.t = "num" /\ val.v # 0

\* Mutant: `protected_laeq_d if protected_laeq_d is not None else exposure_value`.
ComparisonValue_is_not_None(exposure_value, protected_laeq_d) ==
    IF protected_laeq_d.t # "none" THEN protected_laeq_d.v ELSE exposure_value

\* `protected_laeq_d if protected_laeq_d else exposure_value`
ComparisonValue(exposure_value, protected_laeq_d) ==
    IF Truthy(protected_laeq_d) THEN protected_laeq_d.v ELSE exposure_value

\* Mutant: the inferior-action flag compares the raw exposure value.
NoiseResult_inf_on_raw(exposure_value, inf_action_value, sup_action_value, limit_value, with_hearing_protection, protected_laeq_d) ==
    LET comparison_value == IF Truthy(protected_laeq_d) THEN protected_laeq_d.v
                            ELSE exposure_value
    IN [type |-> "NoiseResult",
        exposure_value |-> exposure_value,
        with_hearing_protection |-> with_hearing_protection,
        protected_exposure_value |-> protected_laeq_d,
        inf_action_value |-> inf_action_value,
        sup_action_value |-> sup_action_value,
        limit_value |-> limit_value,
        comparison_value |-> comparison_value,
        exceeds_inf_action |-> exposure_value >= inf_action_value,
        exceeds_sup_action |-> comparison_value >= sup_action_value,
        exceeds_limit |-> comparison_value >= limit_value]

NoiseResult(exposure_value, inf_action_value, sup_action_value, limit_value, with_hearing_protection, protected_laeq_d) ==
    LET comparison_value == ComparisonValue(exposure_value, protected_laeq_d)
    IN [type |-> "NoiseResult",
        exposure_value |-> exposure_value,
        with_hearing_protection |-> with_hearing_protection,
        protected_exposure_value |-> protected_laeq_d,
        inf_action_value |-> inf_action_value,
        sup_action_value |-> sup_action_value,
        limit_value |-> limit_value,
        comparison_value |-> comparison_value,
        exceeds_inf_action |-> comparison_value >= inf_action_value,
        exceeds_sup_action |-> comparison_value >= sup_action_value,
        exceeds_limit |-> comparison_value >= limit_value]

\* RateResult.__init__
RateResult(rate_name, rate_value, factor, num_unit, den_unit) ==
    [type |-> "RateResult",
     rate_name |-> rate_name,
     rate_value |-> rate_value,
     factor |-> factor,
     num_unit |-> num_unit,
     den_unit |-> den_unit]

(***************************************************************************)
(* Renderings.  A text is kept as its parts: which heading it has, which   *)
(* numbers it quotes and which sentence follows.  A `tier` is the          *)
(* threshold the text says is exceeded, `quoted` the number printed with   *)
(* it and `advice` the sentence that closes the text.                      *)
(***************************************************************************)
NoText == [kind |-> "none"]
NoShown == [op |-> "none", err |-> NoErr, out |-> NoText]

\* f"{x:.1f}" on a level kept in 1/100 dB: the nearest tenth of a dB.
Format1f(c) == ((c + 5) \div 10) * 10

\* VibraResult.to_display
VibraResult_to_display(self) ==
    [kind |-> "narrative",
     heading |-> self.exposure_type,
     value |-> self.exposure_value,
     protected_line |-> None,
     tier |-> IF self.exceeds_limit THEN "limit"
              ELSE IF self.exceeds_action THEN "action" ELSE "none",
     quoted |-> IF self.exceeds_limit THEN Num(self.limit_value)
                ELSE IF self.exceeds_action THEN Num(self.limit_value) ELSE None,
     advice |-> IF self.exceeds_limit THEN "immediate"
                ELSE IF self.exceeds_action THEN "preventive" ELSE "none"]

\* NoiseResult.to_display
NoiseResult_to_display(self) ==
    [kind |-> "narrative",
     heading |-> "noise",
     value |-> self.exposure_value,
     protected_line |-> IF self.with_hearing_protection
                           /\ Truthy(self.protected_exposure_value)
                        THEN Num(self.exposure_value) ELSE None,
     tier |-> IF self.exceeds_limit THEN "limit"
              ELSE IF self.exceeds_sup_action THEN "sup_action"
              ELSE IF self.exceeds_inf_action THEN "inf_action" ELSE "none",
     quoted |-> IF self.exceeds_limit THEN Num(Format1f(self.limit_value))
                ELSE IF self.exceeds_sup_action THEN Num(Format1f(self.sup_action_value))
                ELSE IF self.exceeds_inf_action THEN Num(Format1f(self.inf_action_value))
                ELSE None,
     advice |-> IF self.exceeds_limit THEN "immediate"
                ELSE IF self.exceeds_sup_action \/ self.exceeds_inf_action THEN "preventive"
                ELSE "none"]

\* The one line of a rate: "<name>: <value> <num_unit> <wording> <factor> <den_unit>."
RateLine(self, wording) ==
    [kind |-> "rate", rate_name |-> self.rate_name, rate_value |-> self.rate_value,
     num_unit |-> self.num_unit, wording |-> wording, factor |-> self.factor,
     den_unit |-> self.den_unit]

\* RateResult.to_display
RateResult_to_display(self) ==
    IF self.rate_name = "Safety Rate" THEN RateLine(self, "per each accident and")
    ELSE RateLine(self, "per")

\* result.to_display()
ToDisplayOf(self) ==
    IF self.type = "VibraResult" THEN VibraResult_to_display(self)
    ELSE IF self.type = "NoiseResult" THEN NoiseResult_to_display(self)
    ELSE RateResult_to_display(self)

\* str(result): str(np.round(value, 3)); the model's values have at most
\* three decimals, which the rounding keeps.
StrOf(self) ==
    [kind |-> "str",
     value |-> IF self.type = "RateResult" THEN self.rate_value ELSE self.exposure_value]

\* result.to_dict()
ToDictOf(self) ==
    IF self.type = "VibraResult"
    THEN [kind |-> "dict", exposure_value |-> self.exposure_value,
          exposure_type |-> self.exposure_type, unit |-> self.unit,
          action_value |-> self.action_value, limit_value |-> self.limit_value,
          exceeds_action |-> self.exceeds_action, exceeds_limit |-> self.exceeds_limit]
    ELSE IF self.type = "NoiseResult"
    THEN [kind |-> "dict", exposure_value |-> self.exposure_value,
          protected_exposure_value |-> self.protected_exposure_value,
          with_hearing_protection |-> self.with_hearing_protection,
          inf_action_value |-> self.inf_action_value,
          sup_action_value |-> self.sup_action_value, limit_value |-> self.limit_value,
          exceeds_inf_action |-> self.exceeds_inf_action,
          exceeds_sup_action |-> self.exceeds_sup_action,
          exceeds_limit |-> self.exceeds_limit]
    ELSE [kind |-> "dict", rate_name |-> self.rate_name, rate_value |-> self.rate_value,
          factor |-> self.factor, numerator_unit |-> self.num_unit,
          denominator_unit |-> self.den_unit]

\* display(rate_result): what it raises and what it prints.
display(rate_result) ==
    IF rate_result.type # "RateResult"
    THEN [err |-> NativeError("TypeError", "Display only works with RateResult class."),
          out |-> NoText]
    ELSE [err |-> NoErr, out |-> RateLine(rate_result, "per")]

(***************************************************************************)
(* Engines: the threshold configuration fixed at construction.             *)
(***************************************************************************)
HA_ACTION == 2500
HA_LIMIT == 5000
CB_ACTION == 500
CB_LIMIT == 1150
INF_ACTION == 8000
SUP_ACTION == 8500
NOISE_LIMIT == 8700
HOURS_REF == 8
MINUTES_REF == 480

NoEngine == [type |-> "none"]

HandArmVibrations(action_value, limit_value) ==
    [type |-> "HandArmVibrations",
     action_value |-> OrDefault(action_value, HA_ACTION).v,
     limit_value |-> OrDefault(limit_value, HA_LIMIT).v,
     unit |-> "m/s2"]

CompleteBodyVibrations(action_value, limit_value) ==
    [type |-> "CompleteBodyVibrations",
     action_value |-> OrDefault(action_value, CB_ACTION).v,
     limit_value |-> OrDefault(limit_value, CB_LIMIT).v,
     unit |-> "m/s2"]

NoiseExposure(inf_action_value, sup_action_value, limit_value) ==
    [type |-> "NoiseExposure",
     inf_action_value |-> OrDefault(inf_action_value, INF_ACTION).v,
     sup_action_value |-> OrDefault(sup_action_value, SUP_ACTION).v,
     limit_value |-> OrDefault(limit_value, NOISE_LIMIT).v]

(***************************************************************************)
(* Validation.  A validation yields the exception it raises (NoErr when it *)
(* returns) and the advisories it emitted before returning.                *)
(***************************************************************************)
Checked(e, w) == [err |-> e, warns |-> w]

\* Mutant: the loop over the axes lacks its `if val is None` test.
AxisError_no_missing_test(id, val, name) ==
    IF ~IsNumeric(val) THEN Raise("TypeError", id, name, "must be numeric")
    ELSE IF val.v < 0 THEN Raise("ValueError", id, name, "must be non-negative")
    ELSE NoErr

\* One turn of `for val, name in zip([ax, ay, az], ['ax', 'ay', 'az'])`.
AxisError(id, val, name) ==
    IF val.t = "none" THEN Raise("ValueError", id, name, "Missing required axis value")
    ELSE IF ~IsNumeric(val) THEN Raise("TypeError", id, name, "must be numeric")
    ELSE IF val.v < 0 THEN Raise("ValueError", id, name, "must be non-negative")
    ELSE NoErr

\* Mutant: the axes are looked at from az back to ax.
AxesError_from_last_axis(id, ax, ay, az) ==
    IF AxisError(id, az, "az") # NoErr THEN AxisError(id, az, "az")
    ELSE IF AxisError(id, ay, "ay") # NoErr THEN AxisError(id, ay, "ay")
    ELSE AxisError(id, ax, "ax")

\* The loop over the three axes: the first axis that fails raises.
AxesError(id, ax, ay, az) ==
    IF AxisError(id, ax, "ax") # NoErr THEN AxisError(id, ax, "ax")
    ELSE IF AxisError(id, ay, "ay") # NoErr THEN AxisError(id, ay, "ay")
    ELSE AxisError(id, az, "az")

\* Mutant: the advisory is emitted from 8 hours on (`>= 8`).
HoursCheck_warns_at_reference(id, exposure_time_hours) ==
    IF ~IsNumeric(exposure_time_hours)
    THEN Checked(NativeError("TypeError", "'>=' not supported between instances"), <<>>)
    ELSE IF 0 >= exposure_time_hours.v
    THEN Checked(Raise("ValueError", id, "Exposure time", "must be non-negative"), <<>>)
    ELSE IF exposure_time_hours.v >= HOURS_REF
    THEN Checked(NoErr, <<ExceedsWarning(id)>>)
    ELSE Checked(NoErr, <<>>)

\* `if 0 >= exposure_time_hours: raise ...` then `if exposure_time_hours > 8: warn`.
\* Comparing 0 with None or with a str raises Python's own TypeError.
HoursCheck(id, exposure_time_hours) ==
    IF ~IsNumeric(exposure_time_hours)
    THEN Checked(NativeError("TypeError", "'>=' not supported between instances"), <<>>)
    ELSE IF 0 >= exposure_time_hours.v
    THEN Checked(Raise("ValueError", id, "Exposure time", "must be non-negative"), <<>>)
    ELSE IF exposure_time_hours.v > HOURS_REF
    THEN Checked(NoErr, <<ExceedsWarning(id)>>)
    ELSE Checked(NoErr, <<>>)

\* Mutant: the advisory is emitted before the magnitudes are checked.
HandArm_validate_inputs_warns_first(id, aw, ax, ay, az, exposure_time_hours) ==
    LET early == IF IsNumeric(exposure_time_hours) /\ exposure_time_hours.v > HOURS_REF
                 THEN <<ExceedsWarning(id)>> ELSE <<>>
    IN IF aw.t # "none" /\ (ax.t # "none" \/ ay.t # "none" \/ az.t # "none")
       THEN Checked(Raise("ValueError", id, "aw, ax, ay, az",
                          "Must be provided either 'aw' or 'ax, ay, az', not both"), early)
       ELSE IF aw.t = "none" /\ AxesError(id, ax, ay, az) # NoErr
       THEN Checked(AxesError(id, ax, ay, az), early)
       ELSE IF aw.t # "none" /\ ~IsNumeric(aw)
       THEN Checked(Raise("TypeError", id, "aw", "must be numeric"), early)
       ELSE IF aw.t # "none" /\ aw.v < 0
       THEN Checked(Raise("ValueError", id, "aw", "must be numeric"), early)
       ELSE HoursCheck(id, exposure_time_hours)

HandArm_validate_inputs(id, aw, ax, ay, az, exposure_time_hours) ==
    IF aw.t # "none" /\ (ax.t # "none" \/ ay.t # "none" \/ az.t # "none")
    THEN Checked(Raise("ValueError", id, "aw, ax, ay, az",
                       "Must be provided either 'aw' or 'ax, ay, az', not both"), <<>>)
    ELSE IF aw.t = "none" /\ AxesError(id, ax, ay, az) # NoErr
    THEN Checked(AxesError(id, ax, ay, az), <<>>)
    ELSE IF aw.t # "none" /\ ~IsNumeric(aw)
    THEN Checked(Raise("TypeError", id, "aw", "must be numeric"), <<>>)
    ELSE IF aw.t # "none" /\ aw.v < 0
    THEN Checked(Raise("ValueError", id, "aw", "must be numeric"), <<>>)
    ELSE HoursCheck(id, exposure_time_hours)

Body_validate_inputs(id, ax, ay, az, exposure_time_hours) ==
    IF AxesError(id, ax, ay, az) # NoErr
    THEN Checked(AxesError(id, ax, ay, az), <<>>)
    ELSE HoursCheck(id, exposure_time_hours)

\* Mutant: a level of zero passes (`laeq_t < 0`).
Noise_validate_inputs_accepts_zero_level(id, laeq_t, exposure_time_minutes) ==
    IF ~IsNumeric(laeq_t)
    THEN Checked(Raise("TypeError", id, "LAeq,T", "must be a numeric value (int or float)"), <<>>)
    ELSE IF ~IsNumeric(exposure_time_minutes)
    THEN Checked(Raise("TypeError", id, "Exposure time",
                       "must be a numeric value (int or float)"), <<>>)
    ELSE IF laeq_t.v < 0
    THEN Checked(Raise("ValueError", id, "LAeq,T", "must be greater than zero"), <<>>)
    ELSE IF exposure_time_minutes.v <= 0
    THEN Checked(Raise("ValueError", id, "Exposure time", "must be greater than zero"), <<>>)
    ELSE IF exposure_time_minutes.v > MINUTES_REF
    THEN Checked(NoErr, <<ExceedsWarning(id)>>)
    ELSE Checked(NoErr, <<>>)

Noise_validate_inputs(id, laeq_t, exposure_time_minutes) ==
    IF ~IsNumeric(laeq_t)
    THEN Checked(Raise("TypeError", id, "LAeq,T", "must be a numeric value (int or float)"), <<>>)
    ELSE IF ~IsNumeric(exposure_time_minutes)
    THEN Checked(Raise("TypeError", id, "Exposure time",
                       "must be a numeric value (int or float)"), <<>>)
    ELSE IF laeq_t.v <= 0
    THEN Checked(Raise("ValueError", id, "LAeq,T", "must be greater than zero"), <<>>)
    ELSE IF exposure_time_minutes.v <= 0
    THEN Checked(Raise("ValueError", id, "Exposure time", "must be greater than zero"), <<>>)
    ELSE IF exposure_time_minutes.v > MINUTES_REF
    THEN Checked(NoErr, <<ExceedsWarning(id)>>)
    ELSE Checked(NoErr, <<>>)

(***************************************************************************)
(* Per-record operations.  Each yields the exception raised (NoErr when it *)
(* returns), the advisories emitted, and the value returned.               *)
(***************************************************************************)
\* math.sqrt(exposure_time_hours / 8), times Scale
SqrtHoursRatio(exposure_time_hours) == ISqrt((exposure_time_hours * Scale * Scale) \div HOURS_REF)

\* Mutant: the axes are added up instead of combined as a vector magnitude.
HandArm_compute_aw_sum_of_axes(aw, ax, ay, az) ==
    IF aw.t # "none" THEN aw.v
    ELSE ax.v + ay.v + az.v

HandArm_compute_aw(aw, ax, ay, az) ==
    IF aw.t # "none" THEN aw.v
    ELSE ISqrt(ax.v * ax.v + ay.v * ay.v + az.v * az.v)

HandArm_compute_a8(aw, exposure_time_hours) ==
    (aw * SqrtHoursRatio(exposure_time_hours)) \div Scale

HandArm_calculate_a8(self, id, ax, ay, az, aw, exposure_time_hours) ==
    LET chk == HandArm_validate_inputs(id, aw, ax, ay, az, exposure_time_hours)
    IN IF chk.err # NoErr
       THEN [err |-> chk.err, warns |-> chk.warns, val |-> 0]
       ELSE [err |-> NoErr, warns |-> chk.warns,
             val |-> HandArm_compute_a8(HandArm_compute_aw(aw, ax, ay, az),
                                        exposure_time_hours.v)]

Body_calculate_A_vertex(self, id, ax, ay, az, exposure_time_hours) ==
    LET chk == Body_validate_inputs(id, ax, ay, az, exposure_time_hours)
    IN IF chk.err # NoErr
       THEN [err |-> chk.err, warns |-> chk.warns, Ax |-> 0, Ay |-> 0, Az |-> 0]
       ELSE [err |-> NoErr, warns |-> chk.warns,
             Ax |-> (14 * ax.v * SqrtHoursRatio(exposure_time_hours.v)) \div (10 * Scale),
             Ay |-> (14 * ay.v * SqrtHoursRatio(exposure_time_hours.v)) \div (10 * Scale),
             Az |-> (az.v * SqrtHoursRatio(exposure_time_hours.v)) \div Scale]

\* Mutant: the level is returned without its normalisation to 480 minutes.
Noise_calculate_laeq_d_unnormalised(self, id, laeq_t, exposure_time_minutes) ==
    LET chk == Noise_validate_inputs(id, laeq_t, exposure_time_minutes)
    IN IF chk.err # NoErr
       THEN [err |-> chk.err, warns |-> chk.warns, val |-> 0]
       ELSE [err |-> NoErr, warns |-> chk.warns, val |-> laeq_t.v]

\* Mutant: a duration over 480 minutes is cut to 480 once the advisory is out.
Noise_calculate_laeq_d_capped(self, id, laeq_t, exposure_time_minutes) ==
    LET chk == Noise_validate_inputs(id, laeq_t, exposure_time_minutes)
        minutes == IF exposure_time_minutes.v > MINUTES_REF THEN MINUTES_REF
                   ELSE exposure_time_minutes.v
    IN IF chk.err # NoErr
       THEN [err |-> chk.err, warns |-> chk.warns, val |-> 0]
       ELSE [err |-> NoErr, warns |-> chk.warns,
             val |-> laeq_t.v + TenLog10(minutes, MINUTES_REF)]

Noise_calculate_laeq_d(self, id, laeq_t, exposure_time_minutes) ==
    LET chk == Noise_validate_inputs(id, laeq_t, exposure_time_minutes)
    IN IF chk.err # NoErr
       THEN [err |-> chk.err, warns |-> chk.warns, val |-> 0]
       ELSE [err |-> NoErr, warns |-> chk.warns,
             val |-> laeq_t.v + TenLog10(exposure_time_minutes.v, MINUTES_REF)]

(***************************************************************************)
(* Aggregation.  Each yields the exception raised (NoErr when it returns)  *)
(* and the result object returned.                                         *)
(***************************************************************************)
\* Mutant: the squares are averaged (`np.mean`), a root mean square.
HandArm_calculate_total_root_mean_square(self, list_of_exposure) ==
    [err |-> NoErr,
     res |-> VibraResult(IF list_of_exposure = <<>> THEN 0
                         ELSE ISqrt(SumSquares(list_of_exposure) \div Len(list_of_exposure)),
                         "hand-arm", self.action_value, self.limit_value, self.unit)]

\* Mutant: the contributions are added up (`np.sum(list_of_exposure)`).
HandArm_calculate_total_linear_sum(self, list_of_exposure) ==
    [err |-> NoErr,
     res |-> VibraResult(SumSeq(list_of_exposure), "hand-arm",
                         self.action_value, self.limit_value, self.unit)]

HandArm_calculate_total(self, list_of_exposure) ==
    [err |-> NoErr,
     res |-> VibraResult(ISqrt(SumSquares(list_of_exposure)), "hand-arm",
                         self.action_value, self.limit_value, self.unit)]

\* Mutant: the three axes are combined into one root-sum-of-squares.
Body_calculate_total_all_axes(self, xs, ys, zs) ==
    [err |-> NoErr,
     res |-> VibraResult(ISqrt(SumSquares(xs) + SumSquares(ys) + SumSquares(zs)), "body",
                         self.action_value, self.limit_value, self.unit)]

Body_calculate_total(self, xs, ys, zs) ==
    LET A_x == ISqrt(SumSquares(xs))
        A_y == ISqrt(SumSquares(ys))
        A_z == ISqrt(SumSquares(zs))
    IN [err |-> NoErr,
        res |-> VibraResult(Max3(A_x, A_y, A_z), "body",
                            self.action_value, self.limit_value, self.unit)]

\* Energies are taken relative to RefLevel so that they fit the integer width:
\* 10*log10(sum(10**(x/10))) = RefLevel + 10*log10(sum(10**((x - RefLevel)/10))).
RefLevel == 60 * 100

\* np.sum(10 ** (list_of_exposure / 10)), times Scale / 10**(RefLevel/10)
EnergySum(list_of_exposure) ==
    SumSeq([i \in 1..Len(list_of_exposure) |-> Pow10c(list_of_exposure[i] - RefLevel)])

\* Mutant: the total is handed on as the level under hearing protection.
Noise_calculate_total_as_protected(self, list_of_exposure) ==
    IF EnergySum(list_of_exposure) <= 0
    THEN [err |-> NativeError("ValueError", "math domain error"), res |-> NoResult]
    ELSE [err |-> NoErr,
          res |-> NoiseResult(RefLevel + Log10c(EnergySum(list_of_exposure)),
                              self.inf_action_value, self.sup_action_value,
                              self.limit_value, TRUE,
                              Num(RefLevel + Log10c(EnergySum(list_of_exposure))))]

\* Mutant: an empty list gives a level of 0 dB instead of the logarithm of 0.
Noise_calculate_total_zero_when_empty(self, list_of_exposure) ==
    IF list_of_exposure = <<>>
    THEN [err |-> NoErr,
          res |-> NoiseResult(0, self.inf_action_value, self.sup_action_value,
                              self.limit_value, FALSE, None)]
    ELSE [err |-> NoErr,
          res |-> NoiseResult(RefLevel + Log10c(EnergySum(list_of_exposure)),
                              self.inf_action_value, self.sup_action_value,
                              self.limit_value, FALSE, None)]

\* Mutant: the energies are averaged (`np.mean`) instead of summed.
Noise_calculate_total_mean(self, list_of_exposure) ==
    IF EnergySum(list_of_exposure) <= 0
    THEN [err |-> NativeError("ValueError", "math domain error"), res |-> NoResult]
    ELSE [err |-> NoErr,
          res |-> NoiseResult(RefLevel + Log10c(EnergySum(list_of_exposure)
                                                \div Len(list_of_exposure)),
                              self.inf_action_value, self.sup_action_value,
                              self.limit_value, FALSE, None)]

Noise_calculate_total(self, list_of_exposure) ==
    IF EnergySum(list_of_exposure) <= 0
    THEN [err |-> NativeError("ValueError", "math domain error"), res |-> NoResult]
    ELSE [err |-> NoErr,
          res |-> NoiseResult(RefLevel + Log10c(EnergySum(list_of_exposure)),
                              self.inf_action_value, self.sup_action_value,
                              self.limit_value, FALSE, None)]

(***************************************************************************)
(* Inputs.  An element of the input list is a dict, of which dict.get      *)
(* reads the keys below (name "" stands for an absent "name" key), or some *)
(* other object.                                                           *)
(***************************************************************************)
Machine(name, aw, ax, ay, az, time) ==
    [dict |-> TRUE, name |-> name, aw |-> aw, ax |-> ax, ay |-> ay, az |-> az,
     laeq_t |-> None, time |-> time]

Task(name, laeq_t, time) ==
    [dict |-> TRUE, name |-> name, aw |-> None, ax |-> None, ay |-> None, az |-> None,
     laeq_t |-> laeq_t, time |-> time]

NotADict ==
    [dict |-> FALSE, name |-> "", aw |-> None, ax |-> None, ay |-> None, az |-> None,
     laeq_t |-> None, time |-> None]

HandArmElements ==
    { Machine("", Num(3000), None, None, None, Num(4)),
      Machine("Drill", None, Num(1500), Num(2000), Num(0), Num(8)),
      Machine("Drill", Num(3000), None, None, None, Num(9)),
      Machine("Drill", Num(2500), None, None, None, Num(8)),
      Machine("", Num(6000), None, None, None, Num(9)),
      Machine("", Num(3000), Num(1000), None, None, Num(4)),
      Machine("Drill", None, Num(1000), None, Num(2000), Num(4)),
      Machine("", None, Num(-1000), None, Num(2000), Num(9)),
      Machine("", None, Str, Num(1000), Num(1000), Num(4)),
      Machine("", None, Num(1000), Num(1000), Num(-1000), Num(4)),
      Machine("", None, None, None, None, Num(4)),
      Machine("", Str, None, None, None, Num(4)),
      Machine("", Num(-1000), None, None, None, Num(9)),
      Machine("", Num(3000), None, None, None, Num(0)),
      Machine("Drill", Num(3000), None, None, None, None),
      Machine("", Num(3000), None, None, None, Str),
      NotADict }

BodyElements ==
    { Machine("", None, Num(500), Num(400), Num(300), Num(4)),
      Machine("Forklift", None, Num(250), Num(200), Num(500), Num(8)),
      Machine("", None, Num(1000), Num(1200), Num(900), Num(9)),
      Machine("Forklift", None, Num(300), Num(300), Num(300), Num(9)),
      Machine("", None, Num(500), None, Num(300), Num(4)),
      Machine("", None, Str, Num(200), Num(300), Num(4)),
      Machine("Forklift", None, Num(-200), None, Num(300), Num(9)),
      Machine("", None, Num(200), Num(200), Num(-100), Num(2)),
      Machine("", None, Num(200), Num(200), Num(200), Num(0)),
      Machine("", None, Num(200), Num(200), Num(200), None),
      NotADict }

NoiseElements ==
    { Task("", Num(8500), Num(240)),
      Task("Pulido", Num(8500), Num(480)),
      Task("Cutting", Num(9200), Num(60)),
      Task("Welding", Num(8800), Num(500)),
      Task("", Num(8000), Num(960)),
      Task("", Str, Num(60)),
      Task("", None, Num(500)),
      Task("Cutting", Num(8000), None),
      Task("", Num(0), Str),
      Task("", Num(0), Num(500)),
      Task("", Num(8000), Num(0)),
      NotADict }

Elements(f) ==
    IF f = "vibrations_hand_arm" THEN HandArmElements
    ELSE IF f = "vibrations_body" THEN BodyElements
    ELSE NoiseElements

Lists(f) == UNION {[1..n -> Elements(f)] : n \in 0..MaxLen}

\* The `machines` / `tasks` argument: a list, or something that is not a list.
Arguments(f) == {[isList |-> TRUE, items |-> l] : l \in Lists(f)}
                \cup {[isList |-> FALSE, items |-> <<>>]}

\* The threshold arguments <<inf_action_value, action_value or sup_action_value,
\* limit_value>> of a call: the defaults, or values of the caller's choosing.
Thresholds(f) ==
    IF f = "vibrations_hand_arm" THEN {<<None, None, None>>, <<None, Num(5000), Num(2500)>>}
    ELSE IF f = "vibrations_body" THEN {<<None, None, None>>, <<None, Num(1150), Num(500)>>}
    ELSE {<<None, None, None>>, <<Num(8700), Num(8000), Num(8500)>>}

EntryPoints == {"vibrations_hand_arm", "vibrations_body", "noise_exposure"}

\* "Machine" / "Task": the word of the default name and of the entry error.
Label(f) == IF f = "noise_exposure" THEN "Task" ELSE "Machine"

\* Mutant: the default name counts the records from 0 (`enumerate(machines)`).
GetName_from_zero(f, element, i) ==
    IF element.name = "" THEN [label |-> Label(f), n |-> i - 1]
    ELSE [label |-> element.name, n |-> 0]

\* machine.get("name", f"Machine {idx}")
GetName(f, element, i) ==
    IF element.name = "" THEN [label |-> Label(f), n |-> i]
    ELSE [label |-> element.name, n |-> 0]

\* raise TypeError("Invalid input: 'machines' must be a list of dictionaries. ...")
NotAListError(f) ==
    [exc |-> "TypeError", has_id |-> FALSE, id |-> NoId,
     field |-> (IF f = "noise_exposure" THEN "tasks" ELSE "machines"),
     text |-> "must be a list of dictionaries"]

\* Mutant: the entries are counted from 0 (`enumerate(machines)`).
EntryError_from_zero(f, i) ==
    [exc |-> "TypeError", has_id |-> FALSE, id |-> [label |-> Label(f), n |-> i - 1],
     field |-> "entry #", text |-> "must be a dictionary"]

\* raise TypeError(f"Machine entry #{idx} must be a dictionary.")
EntryError(f, i) ==
    [exc |-> "TypeError", has_id |-> FALSE, id |-> [label |-> Label(f), n |-> i],
     field |-> "entry #", text |-> "must be a dictionary"]

\* The engine an entry point constructs from its threshold arguments.
Engine(f, th) ==
    IF f = "vibrations_hand_arm" THEN HandArmVibrations(th[2], th[3])
    ELSE IF f = "vibrations_body" THEN CompleteBodyVibrations(th[2], th[3])
    ELSE NoiseExposure(th[1], th[2], th[3])

\* The per-record call of the loop body of entry point f on the i-th element.
PerRecord(f, self, element, i) ==
    IF f = "vibrations_hand_arm"
    THEN HandArm_calculate_a8(self, GetName(f, element, i), element.ax, element.ay,
                              element.az, element.aw, element.time)
    ELSE IF f = "vibrations_body"
    THEN Body_calculate_A_vertex(self, GetName(f, element, i), element.ax, element.ay,
                                 element.az, element.time)
    ELSE Noise_calculate_laeq_d(self, GetName(f, element, i), element.laeq_t, element.time)

(***************************************************************************)
(* Accident rates (accidents.py, accidents_tools.py).  An argument is a    *)
(* scalar or an array-like of Python values; counts and hours are whole    *)
(* numbers, a factor is a whole number, a rate is kept in 1/1000.          *)
(***************************************************************************)
Scalar(v) == [scalar |-> TRUE, items |-> <<v>>]
ArrayLike(s) == [scalar |-> FALSE, items |-> s]

\* np.atleast_1d: a scalar becomes the array of that one element.
atleast_1d(a) == a.items

\* np.issubdtype(np.atleast_1d(a).dtype, np.number): one string makes the
\* whole array a string array.
NumericDtype(a) == \A i \in 1..Len(a) : IsNumeric(a[i])

\* np.sum of a numeric array
SumValues(a) == SumSeq([i \in 1..Len(a) |-> a[i].v])

\* n / d as a float, kept in 1/1000 (n >= 0, d > 0)
Ratio(n, d) == (n \div d) * 1000 + ((n % d) * 1000) \div d

\* Rates._validate_factor
Rates_validate_factor(factor) ==
    IF ~IsNumeric(factor) \/ factor.v <= 0
    THEN [err |-> NativeError("ValueError", "Factor must be a positive numeric value."),
          value |-> 0]
    ELSE [err |-> NoErr, value |-> factor.v]

\* Rates._validate_input
Rates_validate_input(num, den) ==
    LET n == atleast_1d(num)
        d == atleast_1d(den)
    IN IF ~NumericDtype(n)
       THEN NativeError("TypeError", "All elements in 'num' must be numeric.")
       ELSE IF ~NumericDtype(d)
       THEN NativeError("TypeError", "All elements in 'den' must be numeric.")
       ELSE IF ~(\A i \in 1..Len(n) : n[i].v >= 0) \/ ~(\A i \in 1..Len(d) : d[i].v >= 0)
       THEN NativeError("ValueError", "All values must be positive.")
       ELSE IF ~(SumValues(n) > 0) \/ ~(SumValues(d) > 0)
       THEN NativeError("ValueError",
                        "The sum of num and the sum of den values must be superior to 0.")
       ELSE NoErr

\* Mutant: a falsy factor (0) falls back to the default as None does.
FactorToUse_when_truthy(factor, default) ==
    IF Truthy(factor) \/ factor.t = "str" THEN Rates_validate_factor(factor)
    ELSE [err |-> NoErr, value |-> default]

\* factor_to_use = self._validate_factor(factor) if factor is not None else <default>
FactorToUse(factor, default) ==
    IF factor # None THEN Rates_validate_factor(factor)
    ELSE [err |-> NoErr, value |-> default]

\* Mutant: the rate is taken from the first elements, not from the sums.
Rates_calculate_first_elements(num, den, factor) ==
    LET invalid == Rates_validate_input(num, den)
        factor_to_use == FactorToUse(factor, 1000)
    IN IF invalid # NoErr THEN [err |-> invalid, value |-> 0]
       ELSE IF factor_to_use.err # NoErr THEN [err |-> factor_to_use.err, value |-> 0]
       ELSE IF num.items[1].v = 0 \/ den.items[1].v = 0 THEN [err |-> NoErr, value |-> 0]
       ELSE [err |-> NoErr,
             value |-> Ratio(num.items[1].v * factor_to_use.value, den.items[1].v)]

\* Rates.calculate
Rates_calculate(num, den, factor) ==
    LET invalid == Rates_validate_input(num, den)
        factor_to_use == FactorToUse(factor, 1000)
    IN IF invalid # NoErr THEN [err |-> invalid, value |-> 0]
       ELSE IF factor_to_use.err # NoErr THEN [err |-> factor_to_use.err, value |-> 0]
       ELSE [err |-> NoErr,
             value |-> Ratio(SumValues(num.items) * factor_to_use.value,
                             SumValues(den.items))]

\* What a calculate method hands back: the exception, or the RateResult.
Raised(e) == [err |-> e, res |-> NoResult]
Gives(r) == [err |-> NoErr, res |-> r]

\* FrequencyRate.calculate
FrequencyRate_calculate(num_accidents, hours_worked, factor) ==
    LET factor_to_use == FactorToUse(factor, 1000000)
        rate_value == Rates_calculate(num_accidents, hours_worked, Num(factor_to_use.value))
    IN IF factor_to_use.err # NoErr THEN Raised(factor_to_use.err)
       ELSE IF rate_value.err # NoErr THEN Raised(rate_value.err)
       ELSE Gives(RateResult("Frequency Rate", rate_value.value, factor_to_use.value,
                             "accidents", "work hours"))

\* IncidenceRate.calculate
IncidenceRate_calculate(num_accidents, num_workers, factor) ==
    LET factor_to_use == FactorToUse(factor, 100000)
        rate_value == Rates_calculate(num_accidents, num_workers, Num(factor_to_use.value))
    IN IF factor_to_use.err # NoErr THEN Raised(factor_to_use.err)
       ELSE IF rate_value.err # NoErr THEN Raised(rate_value.err)
       ELSE Gives(RateResult("Incidence Rate", rate_value.value, factor_to_use.value,
                             "accidents", "number of workers"))

\* SeverityRate.calculate
SeverityRate_calculate(days_lost, hours_worked, factor) ==
    LET factor_to_use == FactorToUse(factor, 100000)
        rate_value == Rates_calculate(days_lost, hours_worked, Num(factor_to_use.value))
    IN IF factor_to_use.err # NoErr THEN Raised(factor_to_use.err)
       ELSE IF rate_value.err # NoErr THEN Raised(rate_value.err)
       ELSE Gives(RateResult("Severity Rate", rate_value.value, factor_to_use.value,
                             "work days lost", "work hours"))

\* SafetyRate.calculate: num_rate is a float, kept in 1/1000, and so is the
\* rate it is divided into.
SafetyRate_calculate(num_accidents, num_workers, hours_worked, factor) ==
    LET factor_to_use == FactorToUse(factor, 100000)
        num_rate == Rates_calculate(num_workers, num_accidents, Num(factor_to_use.value))
        invalid == Rates_validate_input(Scalar(Num(num_rate.value)), hours_worked)
        den == SumValues(hours_worked.items)
    IN IF factor_to_use.err # NoErr THEN Raised(factor_to_use.err)
       ELSE IF num_rate.err # NoErr THEN Raised(num_rate.err)
       ELSE IF invalid # NoErr THEN Raised(invalid)
       ELSE Gives(RateResult("Safety Rate", num_rate.value \div den, factor_to_use.value,
                             "workers", "work hours"))

\* The functions of accidents_tools.py that take a factor.
RateFunctions == {"frequency_rate", "incidence_rate", "severity_rate", "safety_rate"}

\* frequency_rate, incidence_rate, severity_rate, safety_rate: each hands its
\* positional arguments and the factor to its class's calculate.
RateOutcome(f, args, factor) ==
    IF f = "frequency_rate" THEN FrequencyRate_calculate(args[1], args[2], factor)
    ELSE IF f = "incidence_rate" THEN IncidenceRate_calculate(args[1], args[2], factor)
    ELSE IF f = "severity_rate" THEN SeverityRate_calculate(args[1], args[2], factor)
    ELSE SafetyRate_calculate(args[1], args[2], args[3], factor)

\* Numbers of accidents, workers or lost days a caller may pass.
Counts ==
    { Scalar(Num(5)), ArrayLike(<<Num(2), Num(3)>>), ArrayLike(<<Num(3), Num(2)>>),
      ArrayLike(<<Num(1), Num(1)>>), ArrayLike(<<Num(0), Num(0)>>),
      ArrayLike(<<Num(-1), Num(6)>>), ArrayLike(<<Num(2), Str>>), ArrayLike(<<>>) }

\* Hours of work a caller may pass.
Hours ==
    { Scalar(Num(100000)), ArrayLike(<<Num(40000), Num(60000)>>),
      ArrayLike(<<Num(50000), Num(150000)>>), ArrayLike(<<Num(0), Num(0)>>),
      ArrayLike(<<Num(-1000), Num(101000)>>), ArrayLike(<<Num(40000), Str>>) }

\* Factors a caller may pass.
Factors == {None, Str, Num(0), Num(-1000), Num(1000)}

\* The positional arguments of rate function f.
RateArguments(f) ==
    IF f = "incidence_rate" THEN {<<a, w>> : a \in Counts, w \in Counts}
    ELSE IF f = "safety_rate" THEN {<<a, w, h>> : a \in Counts, w \in Counts, h \in Hours}
    ELSE {<<n, h>> : n \in Counts, h \in Hours}

NoRateCall == [fn |-> "none", args |-> <<>>, factor |-> None, err |-> NoErr]

(***************************************************************************)
(* The state machine: one batch call at a time, stepped through its loop.  *)
(***************************************************************************)
Init ==
    /\ pc = "idle"
    /\ fn = "none"
    /\ tasks = [isList |-> TRUE, items |-> <<>>]
    /\ eng = NoEngine
    /\ idx = 0
    /\ exposures = <<>>
    /\ exposure_x = <<>>
    /\ exposure_y = <<>>
    /\ exposure_z = <<>>
    /\ warns = <<>>
    /\ err = NoErr
    /\ result = NoResult
    /\ total_calls = 0
    /\ obj = NoResult
    /\ shown = NoShown
    /\ earlier = "none"
    /\ rate_call = NoRateCall

\* Mutant: the entry point lacks its isinstance(…, list) test.
Call_without_list_test ==
    /\ pc = "idle"
    /\ obj = NoResult
    /\ rate_call = NoRateCall
    /\ \E f \in EntryPoints : \E arg \in Arguments(f) : \E th \in Thresholds(f) :
        /\ fn' = f
        /\ tasks' = arg
        /\ eng' = Engine(f, th)
        /\ pc' = "loop"
        /\ err' = NoErr
    /\ idx' = 0
    /\ exposures' = <<>>
    /\ exposure_x' = <<>>
    /\ exposure_y' = <<>>
    /\ exposure_z' = <<>>
    /\ warns' = <<>>
    /\ result' = NoResult
    /\ total_calls' = 0
    /\ obj' = NoResult
    /\ shown' = NoShown
    /\ UNCHANGED <<earlier, rate_call>>

\* Mutant: the position in the list is kept between calls and is not reset
\* after a call that failed.
Call_resumes_after_failure ==
    /\ pc = "idle"
    /\ obj = NoResult
    /\ rate_call = NoRateCall
    /\ \E f \in EntryPoints : \E arg \in Arguments(f) : \E th \in Thresholds(f) :
        /\ fn' = f
        /\ tasks' = arg
        /\ eng' = Engine(f, th)
        /\ IF arg.isList
           THEN pc' = "loop" /\ err' = NoErr
           ELSE pc' = "raised" /\ err' = NotAListError(f)
        /\ idx' = IF earlier = "raised" /\ Len(arg.items) >= 1 THEN 1 ELSE 0
    /\ exposures' = <<>>
    /\ exposure_x' = <<>>
    /\ exposure_y' = <<>>
    /\ exposure_z' = <<>>
    /\ warns' = <<>>
    /\ result' = NoResult
    /\ total_calls' = 0
    /\ obj' = NoResult
    /\ shown' = NoShown
    /\ UNCHANGED <<earlier, rate_call>>

\* Entry of vibrations_hand_arm / vibrations_body / noise_exposure: the
\* isinstance(…, list) test, the engine and the empty lists.
Call ==
    /\ pc = "idle"
    /\ obj = NoResult
    /\ rate_call = NoRateCall
    /\ \E f \in EntryPoints : \E arg \in Arguments(f) : \E th \in Thresholds(f) :
        /\ fn' = f
        /\ tasks' = arg
        /\ eng' = Engine(f, th)
        /\ IF arg.isList
           THEN pc' = "loop" /\ err' = NoErr
           ELSE pc' = "raised" /\ err' = NotAListError(f)
    /\ idx' = 0
    /\ exposures' = <<>>
    /\ exposure_x' = <<>>
    /\ exposure_y' = <<>>
    /\ exposure_z' = <<>>
    /\ warns' = <<>>
    /\ result' = NoResult
    /\ total_calls' = 0
    /\ obj' = NoResult
    /\ shown' = NoShown
    /\ UNCHANGED <<earlier, rate_call>>

\* Mutant: a record whose per-record operation raises is skipped
\* (`try: ... except Exception: continue`) instead of aborting the batch.
LoopBody_skips_invalid ==
    /\ pc = "loop"
    /\ idx < Len(tasks.items)
    /\ LET element == tasks.items[idx + 1]
           r == PerRecord(fn, eng, element, idx + 1)
       IN IF ~element.dict
          THEN /\ pc' = "raised"
               /\ err' = EntryError(fn, idx + 1)
               /\ UNCHANGED <<idx, exposures, exposure_x, exposure_y, exposure_z, warns>>
          ELSE /\ warns' = warns \o r.warns
               /\ idx' = idx + 1
               /\ IF r.err # NoErr
                  THEN UNCHANGED <<exposures, exposure_x, exposure_y, exposure_z>>
                  ELSE IF fn = "vibrations_body"
                  THEN /\ exposure_x' = Append(exposure_x, r.Ax)
                       /\ exposure_y' = Append(exposure_y, r.Ay)
                       /\ exposure_z' = Append(exposure_z, r.Az)
                       /\ UNCHANGED exposures
                  ELSE /\ exposures' = Append(exposures, r.val)
                       /\ UNCHANGED <<exposure_x, exposure_y, exposure_z>>
               /\ UNCHANGED <<pc, err>>
    /\ UNCHANGED <<fn, tasks, eng, result, total_calls, obj, shown, earlier, rate_call>>

\* One turn of `for idx, machine in enumerate(machines, start=1)`.
LoopBody ==
    /\ pc = "loop"
    /\ idx < Len(tasks.items)
    /\ LET element == tasks.items[idx + 1]
           r == PerRecord(fn, eng, element, idx + 1)
       IN IF ~element.dict
          THEN /\ pc' = "raised"
               /\ err' = EntryError(fn, idx + 1)
               /\ UNCHANGED <<idx, exposures, exposure_x, exposure_y, exposure_z, warns>>
          ELSE /\ warns' = warns \o r.warns
               /\ IF r.err # NoErr
                  THEN /\ pc' = "raised"
                       /\ err' = r.err
                       /\ UNCHANGED <<idx, exposures, exposure_x, exposure_y, exposure_z>>
                  ELSE /\ idx' = idx + 1
                       /\ IF fn = "vibrations_body"
                          THEN /\ exposure_x' = Append(exposure_x, r.Ax)
                               /\ exposure_y' = Append(exposure_y, r.Ay)
                               /\ exposure_z' = Append(exposure_z, r.Az)
                               /\ UNCHANGED exposures
                          ELSE /\ exposures' = Append(exposures, r.val)
                               /\ UNCHANGED <<exposure_x, exposure_y, exposure_z>>
                       /\ UNCHANGED <<pc, err>>
    /\ UNCHANGED <<fn, tasks, eng, result, total_calls, obj, shown, earlier, rate_call>>

\* The calculate_total call of entry point f after its loop.
Total(f, self, es, xs, ys, zs) ==
    IF f = "vibrations_hand_arm" THEN HandArm_calculate_total(self, es)
    ELSE IF f = "vibrations_body" THEN Body_calculate_total(self, xs, ys, zs)
    ELSE Noise_calculate_total(self, es)

\* `return vib.calculate_total(exposures)` once the loop has run out.
Aggregate ==
    /\ pc = "loop"
    /\ idx = Len(tasks.items)
    /\ LET t == Total(fn, eng, exposures, exposure_x, exposure_y, exposure_z)
       IN /\ result' = t.res
          /\ err' = t.err
          /\ pc' = IF t.err # NoErr THEN "raised" ELSE "returned"
    /\ total_calls' = total_calls + 1
    /\ UNCHANGED <<fn, tasks, eng, idx, exposures, exposure_x, exposure_y, exposure_z,
                   warns, obj, shown, earlier, rate_call>>

\* The caller has the result or the exception; nothing of the call is kept.
Return ==
    /\ pc \in {"returned", "raised"}
    /\ pc' = "idle"
    /\ fn' = "none"
    /\ tasks' = [isList |-> TRUE, items |-> <<>>]
    /\ eng' = NoEngine
    /\ idx' = 0
    /\ exposures' = <<>>
    /\ exposure_x' = <<>>
    /\ exposure_y' = <<>>
    /\ exposure_z' = <<>>
    /\ warns' = <<>>
    /\ err' = NoErr
    /\ result' = NoResult
    /\ total_calls' = 0
    /\ obj' = NoResult
    /\ shown' = NoShown
    /\ UNCHANGED <<earlier, rate_call>>

\* The same step, with the way the call ended written to the history variable.
ReturnRecorded ==
    /\ pc \in {"returned", "raised"}
    /\ pc' = "idle"
    /\ fn' = "none"
    /\ tasks' = [isList |-> TRUE, items |-> <<>>]
    /\ eng' = NoEngine
    /\ idx' = 0
    /\ exposures' = <<>>
    /\ exposure_x' = <<>>
    /\ exposure_y' = <<>>
    /\ exposure_z' = <<>>
    /\ warns' = <<>>
    /\ err' = NoErr
    /\ result' = NoResult
    /\ total_calls' = 0
    /\ obj' = NoResult
    /\ shown' = NoShown
    /\ earlier' = pc
    /\ UNCHANGED rate_call

\* Values and thresholds a caller may hand to a result's constructor.
DirectLevels == {7900, 8000, 8500, 8700, 8800}
DirectProtected == {None, Num(0), Num(7000), Num(8500)}
DirectNoiseThresholds == {<<8000, 8500, 8700>>, <<8700, 8500, 8000>>}
DirectMagnitudes == {2000, 2500, 3000, 5000, 6000}
DirectVibraThresholds == {<<2500, 5000>>, <<5000, 2500>>}

\* NoiseResult(exposure_value, inf, sup, limit, with_hearing_protection, protected_laeq_d)
NewNoiseResult ==
    /\ pc = "idle"
    /\ \E ev \in DirectLevels : \E th \in DirectNoiseThresholds :
       \E whp \in BOOLEAN : \E prot \in DirectProtected :
          obj' = NoiseResult(ev, th[1], th[2], th[3], whp, prot)
    /\ shown' = NoShown
    /\ UNCHANGED <<pc, fn, tasks, eng, idx, exposures, exposure_x, exposure_y, exposure_z,
                   warns, err, result, total_calls, earlier>>
    /\ rate_call' = NoRateCall

\* VibraResult(exposure_value, exposure_type, action_value, limit_value)
NewVibraResult ==
    /\ pc = "idle"
    /\ \E ev \in DirectMagnitudes : \E th \in DirectVibraThresholds :
       \E ty \in {"hand-arm", "body"} :
          obj' = VibraResult(ev, ty, th[1], th[2], "m/s2")
    /\ shown' = NoShown
    /\ UNCHANGED <<pc, fn, tasks, eng, idx, exposures, exposure_x, exposure_y, exposure_z,
                   warns, err, result, total_calls, earlier>>
    /\ rate_call' = NoRateCall

\* The caller lets go of the object it holds and of the failed rate call.
Discard ==
    /\ pc = "idle"
    /\ obj # NoResult \/ rate_call # NoRateCall
    /\ obj' = NoResult
    /\ shown' = NoShown
    /\ UNCHANGED <<pc, fn, tasks, eng, idx, exposures, exposure_x, exposure_y, exposure_z,
                   warns, err, result, total_calls, earlier>>
    /\ rate_call' = NoRateCall

\* Rates a caller may hand to RateResult: values in 1/1000.
DirectRates ==
    { RateResult("Frequency Rate", 67570, 1000000, "accidents", "work hours"),
      RateResult("Incidence Rate", 25000, 1000, "accidents", "workers"),
      RateResult("Safety Rate", 50000, 100000, "workers", "work hours") }

\* RateResult(rate_name, rate_value, factor, num_unit, den_unit)
NewRateResult ==
    /\ pc = "idle"
    /\ \E r \in DirectRates : obj' = r
    /\ shown' = NoShown
    /\ UNCHANGED <<pc, fn, tasks, eng, idx, exposures, exposure_x, exposure_y, exposure_z,
                   warns, err, result, total_calls, earlier>>
    /\ rate_call' = NoRateCall

\* frequency_rate(...), incidence_rate(...), severity_rate(...), safety_rate(...)
CallRate ==
    /\ pc = "idle"
    /\ obj = NoResult
    /\ rate_call = NoRateCall
    /\ \E f \in RateFunctions : \E args \in RateArguments(f) : \E factor \in Factors :
          LET outcome == RateOutcome(f, args, factor)
          IN /\ rate_call' = [fn |-> f, args |-> args, factor |-> factor,
                              err |-> outcome.err]
             /\ obj' = outcome.res
    /\ shown' = NoShown
    /\ UNCHANGED <<pc, fn, tasks, eng, idx, exposures, exposure_x, exposure_y, exposure_z,
                   warns, err, result, total_calls, earlier>>

\* The result object the caller holds: the one the batch call returned, or
\* the one constructed directly.
Held == IF pc = "returned" THEN result ELSE obj

HoldsResult == pc = "returned" \/ (pc = "idle" /\ obj # NoResult)

\* str(result) / print(result)
CallStr ==
    /\ HoldsResult
    /\ shown' = [op |-> "__str__", err |-> NoErr, out |-> StrOf(Held)]
    /\ UNCHANGED <<pc, fn, tasks, eng, idx, exposures, exposure_x, exposure_y, exposure_z,
                   warns, err, result, total_calls, obj, earlier, rate_call>>

\* result.to_dict()
CallToDict ==
    /\ HoldsResult
    /\ shown' = [op |-> "to_dict", err |-> NoErr, out |-> ToDictOf(Held)]
    /\ UNCHANGED <<pc, fn, tasks, eng, idx, exposures, exposure_x, exposure_y, exposure_z,
                   warns, err, result, total_calls, obj, earlier, rate_call>>

\* Mutant: to_display overwrites the value it has printed.
CallToDisplay_overwrites_value ==
    /\ HoldsResult
    /\ shown' = [op |-> "to_display", err |-> NoErr, out |-> ToDisplayOf(Held)]
    /\ LET after == IF Held.type = "RateResult" THEN [Held EXCEPT !.rate_value = 0]
                     ELSE [Held EXCEPT !.exposure_value = 0]
       IN IF pc = "returned" THEN result' = after /\ obj' = obj
          ELSE obj' = after /\ result' = result
    /\ UNCHANGED <<pc, fn, tasks, eng, idx, exposures, exposure_x, exposure_y, exposure_z,
                   warns, err, total_calls, earlier, rate_call>>

\* result.to_display()
CallToDisplay ==
    /\ HoldsResult
    /\ shown' = [op |-> "to_display", err |-> NoErr, out |-> ToDisplayOf(Held)]
    /\ UNCHANGED <<pc, fn, tasks, eng, idx, exposures, exposure_x, exposure_y, exposure_z,
                   warns, err, result, total_calls, obj, earlier, rate_call>>

\* display(result)
CallDisplay ==
    /\ HoldsResult
    /\ shown' = [op |-> "display", err |-> display(Held).err, out |-> display(Held).out]
    /\ UNCHANGED <<pc, fn, tasks, eng, idx, exposures, exposure_x, exposure_y, exposure_z,
                   warns, err, result, total_calls, obj, earlier, rate_call>>

Next ==
    \/ Call
    \/ LoopBody
    \/ Aggregate
    \/ Return
    \/ NewNoiseResult
    \/ NewVibraResult
    \/ NewRateResult
    \/ CallRate
    \/ Discard
    \/ CallStr
    \/ CallToDict
    \/ CallToDisplay
    \/ CallDisplay

Spec == Init /\ [][Next]_vars

\* The same program with the history variable `earlier` kept up to date.
NextWithHistory ==
    \/ Call
    \/ LoopBody
    \/ Aggregate
    \/ ReturnRecorded
    \/ NewNoiseResult
    \/ NewVibraResult
    \/ NewRateResult
    \/ CallRate
    \/ Discard
    \/ CallStr
    \/ CallToDict
    \/ CallToDisplay
    \/ CallDisplay

SpecWithHistory == Init /\ [][NextWithHistory]_vars

(***************************************************************************)
(* The entry points called on a list of one record, the record drawn from  *)
(* every combination of absent, non-numeric, negative or zero and valid    *)
(* fields, so that a record may fail several checks at once.               *)
(***************************************************************************)
ProbeMagnitudes == {None, Str, Num(-1000), Num(2000)}
ProbeHours == {None, Str, Num(0), Num(4), Num(9)}
ProbeLevels == {None, Str, Num(0), Num(-1000), Num(8500)}
ProbeMinutes == {None, Str, Num(0), Num(240), Num(500)}

OneRecord(f) ==
    IF f = "vibrations_hand_arm"
    THEN {Machine("", aw, ax, ay, az, t) :
             aw \in ProbeMagnitudes, ax \in ProbeMagnitudes, ay \in ProbeMagnitudes,
             az \in ProbeMagnitudes, t \in ProbeHours}
    ELSE IF f = "vibrations_body"
    THEN {Machine("", None, ax, ay, az, t) :
             ax \in ProbeMagnitudes, ay \in ProbeMagnitudes, az \in ProbeMagnitudes,
             t \in ProbeHours}
    ELSE {Task("", laeq_t, t) : laeq_t \in ProbeLevels, t \in ProbeMinutes}

\* vibrations_hand_arm([machine]), vibrations_body([machine]), noise_exposure([task])
CallOnOneRecord ==
    /\ pc = "idle"
    /\ obj = NoResult
    /\ rate_call = NoRateCall
    /\ \E f \in EntryPoints : \E element \in OneRecord(f) :
        /\ fn' = f
        /\ tasks' = [isList |-> TRUE, items |-> <<element>>]
        /\ eng' = Engine(f, <<None, None, None>>)
    /\ pc' = "loop"
    /\ err' = NoErr
    /\ idx' = 0
    /\ exposures' = <<>>
    /\ exposure_x' = <<>>
    /\ exposure_y' = <<>>
    /\ exposure_z' = <<>>
    /\ warns' = <<>>
    /\ result' = NoResult
    /\ total_calls' = 0
    /\ obj' = NoResult
    /\ shown' = NoShown
    /\ UNCHANGED <<earlier, rate_call>>

NextOnOneRecord ==
    \/ CallOnOneRecord
    \/ LoopBody
    \/ Aggregate
    \/ Return

SpecOnOneRecord == Init /\ [][NextOnOneRecord]_vars

(***************************************************************************)
(* What the specification calls a valid record (spec.md sections 4.1-4.3), *)
(* stated on the record alone.                                             *)
(***************************************************************************)
NonNegative(val) == val.t = "num" /\ val.v >= 0
Positive(val) == val.t = "num" /\ val.v > 0
Present(val) == val.t # "none"

\* Every field but the duration is as the specification requires.
MagnitudesValid(f, e) ==
    IF f = "vibrations_hand_arm"
    THEN /\ \/ Present(e.aw) /\ ~Present(e.ax) /\ ~Present(e.ay) /\ ~Present(e.az)
            \/ ~Present(e.aw) /\ Present(e.ax) /\ Present(e.ay) /\ Present(e.az)
         /\ \A val \in {e.aw, e.ax, e.ay, e.az} : Present(val) => NonNegative(val)
    ELSE IF f = "vibrations_body"
    THEN NonNegative(e.ax) /\ NonNegative(e.ay) /\ NonNegative(e.az)
    ELSE Positive(e.laeq_t)

ValidRecord(f, e) == e.dict /\ MagnitudesValid(f, e) /\ Positive(e.time)

\* The position of the first invalid element of a list, 0 when all are valid.
FirstInvalid(f, items) ==
    IF \A i \in 1..Len(items) : ValidRecord(f, items[i]) THEN 0
    ELSE CHOOSE i \in 1..Len(items) :
            /\ ~ValidRecord(f, items[i])
            /\ \A j \in 1..(i - 1) : ValidRecord(f, items[j])

\* The exception the loop body raises on element i taken alone.
ErrorOf(f, self, items, i) ==
    IF ~items[i].dict THEN EntryError(f, i) ELSE PerRecord(f, self, items[i], i).err

InCall == fn \in EntryPoints /\ tasks.isList

(***************************************************************************)
(* C1.  Fail-fast batches: when some element of the input list is invalid, *)
(* the call never returns a result and never runs calculate_total, the     *)
(* loop never gets past the first invalid element (no later element is     *)
(* examined), and the exception that leaves the call is the one that       *)
(* element raises.                                                         *)
(***************************************************************************)
C1_FailFast ==
    (InCall /\ FirstInvalid(fn, tasks.items) # 0) =>
        /\ pc # "returned"
        /\ result = NoResult
        /\ total_calls = 0
        /\ idx < FirstInvalid(fn, tasks.items)
        /\ pc = "raised" =>
              /\ idx + 1 = FirstInvalid(fn, tasks.items)
              /\ err # NoErr
              /\ err = ErrorOf(fn, eng, tasks.items, idx + 1)

\* A batch aborted at an invalid element that has valid elements before it
\* and further elements after it.
C1_Witness ==
    /\ InCall
    /\ pc = "raised"
    /\ idx >= 1
    /\ FirstInvalid(fn, tasks.items) = idx + 1
    /\ idx + 1 < Len(tasks.items)
    /\ \E j \in (idx + 2)..Len(tasks.items) : ~ValidRecord(fn, tasks.items[j])

(***************************************************************************)
(* Results that exist in a state: the one a batch call returned and the    *)
(* one constructed directly.                                               *)
(***************************************************************************)
Results == {r \in {result, obj} : r.type \in {"NoiseResult", "VibraResult"}}
NoiseResults == {r \in {result, obj} : r.type = "NoiseResult"}
VibraResults == {r \in {result, obj} : r.type = "VibraResult"}

MonotoneFlags(r) ==
    IF r.type = "NoiseResult"
    THEN /\ r.exceeds_limit => r.exceeds_sup_action
         /\ r.exceeds_sup_action => r.exceeds_inf_action
    ELSE r.exceeds_limit => r.exceeds_action

OrderedThresholds(r) ==
    IF r.type = "NoiseResult"
    THEN r.inf_action_value <= r.sup_action_value /\ r.sup_action_value <= r.limit_value
    ELSE r.action_value <= r.limit_value

(***************************************************************************)
(* C2 (as claimed).  Threshold monotonicity for any result, whatever the   *)
(* thresholds: exceeds_limit => exceeds_sup_action => exceeds_inf_action   *)
(* (noise), exceeds_limit => exceeds_action (vibration).                   *)
(***************************************************************************)
C2_AnyThresholds == \A r \in Results : MonotoneFlags(r)

(***************************************************************************)
(* C2 (amended).  Threshold monotonicity holds for every result whose      *)
(* thresholds are in ascending order (inf <= sup <= limit, action <=       *)
(* limit); the constructors do not order or check the thresholds.          *)
(***************************************************************************)
C2_Monotone == \A r \in Results : OrderedThresholds(r) => MonotoneFlags(r)

\* A batch result over the limit, with ordered thresholds and every flag set.
C2_Witness ==
    /\ pc = "returned"
    /\ OrderedThresholds(result)
    /\ result.exceeds_limit
    /\ MonotoneFlags(result)

\* The value a noise result compares: the protected value when it is present
\* and non-zero, else the raw exposure value.
ComparedLevel(r) ==
    IF r.protected_exposure_value.t = "num" /\ r.protected_exposure_value.v # 0
    THEN r.protected_exposure_value.v
    ELSE r.exposure_value

(***************************************************************************)
(* C3.  Each flag of a noise result is true iff the compared value is      *)
(* greater than or equal to its threshold; each flag of a vibration result *)
(* is true iff the exposure value is strictly greater than its threshold.  *)
(***************************************************************************)
C3_Comparison ==
    /\ \A r \in NoiseResults :
          /\ r.exceeds_inf_action <=> (ComparedLevel(r) >= r.inf_action_value)
          /\ r.exceeds_sup_action <=> (ComparedLevel(r) >= r.sup_action_value)
          /\ r.exceeds_limit <=> (ComparedLevel(r) >= r.limit_value)
    /\ \A r \in VibraResults :
          /\ r.exceeds_action <=> (r.exposure_value > r.action_value)
          /\ r.exceeds_limit <=> (r.exposure_value > r.limit_value)

\* A hand-arm batch whose exposure equals the action value exactly (2.5 m/s^2)
\* and does not set the flag.
C3_Witness ==
    /\ pc = "returned"
    /\ result.type = "VibraResult"
    /\ result.exposure_value = result.action_value
    /\ ~result.exceeds_action

\* A noise batch whose exposure equals the superior action value exactly
\* (85.0 dB against 85) and sets the flag.
C3_NoiseAtThreshold ==
    /\ pc = "returned"
    /\ result.type = "NoiseResult"
    /\ result.exposure_value = result.sup_action_value
    /\ result.exceeds_sup_action
    /\ ~result.exceeds_limit

FlagsFrom(r, value) ==
    /\ r.exceeds_inf_action <=> (value >= r.inf_action_value)
    /\ r.exceeds_sup_action <=> (value >= r.sup_action_value)
    /\ r.exceeds_limit <=> (value >= r.limit_value)

(***************************************************************************)
(* C4 (as claimed).  When a protected value is supplied to NoiseResult,    *)
(* whatever number it is (0.0 included), the three flags are computed from *)
(* the protected value; the raw value is used only when none is supplied.  *)
(***************************************************************************)
C4_ProtectedWhenSupplied ==
    \A r \in NoiseResults :
        IF r.protected_exposure_value.t = "num"
        THEN FlagsFrom(r, r.protected_exposure_value.v)
        ELSE FlagsFrom(r, r.exposure_value)

(***************************************************************************)
(* C5.  When the protected value is present and non-zero the three flags   *)
(* are computed from it alone (neither the raw value nor                   *)
(* with_hearing_protection matters); when it is None or zero they are      *)
(* computed from the raw exposure value.                                   *)
(***************************************************************************)
C5_ProtectedWhenTruthy ==
    \A r \in NoiseResults :
        IF r.protected_exposure_value.t = "num" /\ r.protected_exposure_value.v # 0
        THEN FlagsFrom(r, r.protected_exposure_value.v)
        ELSE FlagsFrom(r, r.exposure_value)

\* Raw 88 dB with protected 85 dB against 80 / 85 / 87: superior action
\* exceeded, limit not.
C5_Witness ==
    /\ obj.type = "NoiseResult"
    /\ obj.exposure_value = 8800
    /\ obj.protected_exposure_value = Num(8500)
    /\ obj.limit_value = NOISE_LIMIT
    /\ obj.exceeds_sup_action
    /\ ~obj.exceeds_limit

(***************************************************************************)
(* C6 (as claimed).  noise_exposure on the single record {laeq_t: 85,      *)
(* time: 240} with the default thresholds returns about 81.99 dB with      *)
(* exceeds_inf_action, exceeds_sup_action and exceeds_limit all false.     *)
(***************************************************************************)
C6_Case ==
    /\ fn = "noise_exposure"
    /\ tasks = [isList |-> TRUE, items |-> <<Task("", Num(8500), Num(240))>>]
    /\ eng = NoiseExposure(None, None, None)
    /\ pc \in {"returned", "raised"}

C6_AllFlagsFalse ==
    C6_Case =>
        /\ pc = "returned"
        /\ result.exposure_value \in 8198..8200
        /\ ~result.exceeds_inf_action
        /\ ~result.exceeds_sup_action
        /\ ~result.exceeds_limit

(***************************************************************************)
(* C6 (amended).  The same call returns 85 + 10*log10(240/480), about      *)
(* 81.99 dB, which is at or above the inferior action value 80: the result *)
(* has exceeds_inf_action true, exceeds_sup_action and exceeds_limit false.*)
(***************************************************************************)
C6_InfActionExceeded ==
    C6_Case =>
        /\ pc = "returned"
        /\ result.exposure_value \in 8198..8200
        /\ result.exceeds_inf_action
        /\ ~result.exceeds_sup_action
        /\ ~result.exceeds_limit

C6_Witness == C6_Case /\ pc = "returned" /\ result.exceeds_inf_action

(***************************************************************************)
(* Hand-arm records as the claims describe them.                           *)
(***************************************************************************)
ExactlyOneForm(e) ==
    \/ Present(e.aw) /\ ~Present(e.ax) /\ ~Present(e.ay) /\ ~Present(e.az)
    \/ ~Present(e.aw) /\ Present(e.ax) /\ Present(e.ay) /\ Present(e.az)

MissingAxes(e) ==
    {a \in {"ax", "ay", "az"} :
        (a = "ax" /\ ~Present(e.ax)) \/ (a = "ay" /\ ~Present(e.ay))
        \/ (a = "az" /\ ~Present(e.az))}

\* The first axis, in the order ax, ay, az, that is missing, non-numeric or negative.
FirstFaultyAxis(e) ==
    IF ~NonNegative(e.ax) THEN "ax" ELSE IF ~NonNegative(e.ay) THEN "ay" ELSE "az"

\* The call was aborted by the per-record operation on the dict at idx + 1.
RaisedOnRecord ==
    /\ InCall
    /\ pc = "raised"
    /\ idx < Len(tasks.items)
    /\ tasks.items[idx + 1].dict

HandArmConflictRejected ==
    (RaisedOnRecord /\ Present(tasks.items[idx + 1].aw)
       /\ MissingAxes(tasks.items[idx + 1]) # {"ax", "ay", "az"}) =>
        /\ err.exc = "ValueError"
        /\ err.has_id
        /\ err.id = GetName(fn, tasks.items[idx + 1], idx + 1)
        /\ err.text = "Must be provided either 'aw' or 'ax, ay, az', not both"

(***************************************************************************)
(* C7 (as claimed).  A hand-arm record is accepted only if exactly one of  *)
(* {aw alone} or {ax, ay, az all present} is supplied; aw together with    *)
(* any axis fails with an error; no aw and only a subset of the axes fails *)
(* with an error naming the record id and the missing axis.                *)
(***************************************************************************)
C7_NamesMissingAxis ==
    (fn = "vibrations_hand_arm" /\ tasks.isList) =>
        /\ \A i \in 1..idx : ExactlyOneForm(tasks.items[i])
        /\ HandArmConflictRejected
        /\ (RaisedOnRecord /\ ~Present(tasks.items[idx + 1].aw)
              /\ MissingAxes(tasks.items[idx + 1]) # {}) =>
               /\ err.has_id
               /\ err.id = GetName(fn, tasks.items[idx + 1], idx + 1)
               /\ err.field \in MissingAxes(tasks.items[idx + 1])
               /\ err.text = "Missing required axis value"

(***************************************************************************)
(* C7 (amended).  As claimed, except that a record with no aw and only a   *)
(* subset of the axes fails with an error naming the record id and the     *)
(* first axis, in the order ax, ay, az, that is missing, non-numeric or    *)
(* negative: the error names the missing axis when every axis before it    *)
(* is numeric and non-negative, and otherwise names the earlier faulty     *)
(* axis.                                                                   *)
(***************************************************************************)
C7_NamesFirstFaultyAxis ==
    (fn = "vibrations_hand_arm" /\ tasks.isList) =>
        /\ \A i \in 1..idx : ExactlyOneForm(tasks.items[i])
        /\ HandArmConflictRejected
        /\ (RaisedOnRecord /\ ~Present(tasks.items[idx + 1].aw)
              /\ MissingAxes(tasks.items[idx + 1]) # {}) =>
               /\ err.has_id
               /\ err.id = GetName(fn, tasks.items[idx + 1], idx + 1)
               /\ err.field = FirstFaultyAxis(tasks.items[idx + 1])
               /\ err.field \in MissingAxes(tasks.items[idx + 1]) <=>
                     err.text = "Missing required axis value"

\* A named record with ax and az but no ay, rejected with an error naming 'ay'.
C7_Witness ==
    /\ fn = "vibrations_hand_arm"
    /\ RaisedOnRecord
    /\ tasks.items[idx + 1] = Machine("Drill", None, Num(1000), None, Num(2000), Num(4))
    /\ err.id = [label |-> "Drill", n |-> 0]
    /\ err.field = "ay"
    /\ err.text = "Missing required axis value"

(***************************************************************************)
(* Durations and values as the claims describe them.                       *)
(***************************************************************************)
\* The reference window: 8 hours for vibration, 480 minutes for noise.
ReferenceWindow(f) == IF f = "noise_exposure" THEN 480 ELSE 8

OverDuration(f, e) == e.time.v > ReferenceWindow(f)

\* The value the normal formula gives for a valid record: a8 (hand-arm),
\* <<Ax, Ay, Az>> (body), laeq_d (noise).
NormalValue(f, e) ==
    LET root == ISqrt((e.time.v * Scale * Scale) \div 8)
    IN IF f = "vibrations_hand_arm"
       THEN LET aw == IF Present(e.aw) THEN e.aw.v
                      ELSE ISqrt(e.ax.v * e.ax.v + e.ay.v * e.ay.v + e.az.v * e.az.v)
            IN (aw * root) \div Scale
       ELSE IF f = "vibrations_body"
       THEN <<(14 * e.ax.v * root) \div (10 * Scale),
              (14 * e.ay.v * root) \div (10 * Scale),
              (e.az.v * root) \div Scale>>
       ELSE e.laeq_t.v + TenLog10(e.time.v, 480)

\* The step appended the value v of one record to the lists of the call.
ValueAppended(f, v) ==
    IF f = "vibrations_body"
    THEN /\ exposure_x' = Append(exposure_x, v[1])
         /\ exposure_y' = Append(exposure_y, v[2])
         /\ exposure_z' = Append(exposure_z, v[3])
    ELSE exposures' = Append(exposures, v)

\* The per-record operation is about to run on a record whose fields other
\* than the duration are valid and whose duration is a number.
AtRecordWithNumericDuration ==
    /\ InCall
    /\ pc = "loop"
    /\ idx < Len(tasks.items)
    /\ tasks.items[idx + 1].dict
    /\ MagnitudesValid(fn, tasks.items[idx + 1])
    /\ IsNumeric(tasks.items[idx + 1].time)

(***************************************************************************)
(* C8.  In each per-record operation, on otherwise valid fields: a         *)
(* duration <= 0 raises and yields no value; a duration above the          *)
(* reference window does not raise, emits exactly one UserWarning naming   *)
(* the record id and yields the value of the normal formula; a duration in *)
(* (0, reference], the reference included, emits no advisory.              *)
(***************************************************************************)
C8_Duration ==
    [][AtRecordWithNumericDuration =>
        LET e == tasks.items[idx + 1]
            id == GetName(fn, e, idx + 1)
        IN /\ e.time.v <= 0 =>
                /\ pc' = "raised"
                /\ err'.exc = "ValueError"
                /\ err'.id = id
                /\ warns' = warns
                /\ UNCHANGED <<idx, exposures, exposure_x, exposure_y, exposure_z, result>>
           /\ OverDuration(fn, e) =>
                /\ pc' = "loop"
                /\ err' = NoErr
                /\ Len(warns') = Len(warns) + 1
                /\ SubSeq(warns', 1, Len(warns)) = warns
                /\ warns'[Len(warns')].category = "UserWarning"
                /\ warns'[Len(warns')].id = id
                /\ ValueAppended(fn, NormalValue(fn, e))
           /\ (e.time.v > 0 /\ ~OverDuration(fn, e)) =>
                /\ pc' = "loop"
                /\ err' = NoErr
                /\ warns' = warns
                /\ ValueAppended(fn, NormalValue(fn, e))
    ]_vars

\* A record lasting exactly the reference window passed without advisory and
\* the next, lasting longer, passed with one advisory naming it.
C8_Witness ==
    /\ InCall
    /\ pc = "loop"
    /\ idx = 2
    /\ tasks.items[1].time.v = ReferenceWindow(fn)
    /\ OverDuration(fn, tasks.items[2])
    /\ Len(warns) = 1
    /\ warns[1].id = GetName(fn, tasks.items[2], 2)

RECURSIVE AdvisoriesUpTo(_, _, _)
\* One UserWarning, in list order, for each of the first n records that
\* lasts longer than the reference window.
AdvisoriesUpTo(f, items, n) ==
    IF n = 0 THEN <<>>
    ELSE AdvisoriesUpTo(f, items, n - 1) \o
         (IF OverDuration(f, items[n])
          THEN <<[category |-> "UserWarning", id |-> GetName(f, items[n], n),
                  text |-> "Exposure time exceeds 8 hours."]>>
          ELSE <<>>)

NormalValues(f, items) == [i \in 1..Len(items) |-> NormalValue(f, items[i])]

\* The aggregation formula applied to the records' normal values.
AggregateOf(f, self, items) ==
    IF f = "vibrations_body"
    THEN Total(f, self, <<>>, [i \in 1..Len(items) |-> NormalValue(f, items[i])[1]],
               [i \in 1..Len(items) |-> NormalValue(f, items[i])[2]],
               [i \in 1..Len(items) |-> NormalValue(f, items[i])[3]])
    ELSE Total(f, self, NormalValues(f, items), <<>>, <<>>, <<>>)

(***************************************************************************)
(* C9.  In a batch call whose records are all valid, the advisories        *)
(* emitted so far are exactly one UserWarning per processed record that    *)
(* lasts longer than the reference window (so their number at the end of   *)
(* the call is the number of such records), no error is raised for them,   *)
(* and the returned result is the one the aggregation formula gives for    *)
(* the records.                                                            *)
(***************************************************************************)
C9_Advisories ==
    (InCall /\ FirstInvalid(fn, tasks.items) = 0) =>
        /\ warns = AdvisoriesUpTo(fn, tasks.items, idx)
        /\ Len(warns) = Cardinality({i \in 1..idx : OverDuration(fn, tasks.items[i])})
        /\ (pc = "raised" => Len(tasks.items) = 0)
        /\ pc = "returned" =>
              /\ idx = Len(tasks.items)
              /\ err = NoErr
              /\ result = AggregateOf(fn, eng, tasks.items).res

\* A returned batch of three valid records, two of them over the reference window.
C9_Witness ==
    /\ InCall
    /\ pc = "returned"
    /\ Len(tasks.items) = 3
    /\ FirstInvalid(fn, tasks.items) = 0
    /\ Len(warns) = 2
    /\ ~OverDuration(fn, tasks.items[2])

(***************************************************************************)
(* C10.  Every invalid-input failure raised while a batch entry point      *)
(* processes a record (the duration field `time` included, when missing or *)
(* non-numeric) carries a message that identifies both the record's id and *)
(* the offending field.                                                    *)
(***************************************************************************)
C10_ErrorNamesRecordAndField ==
    RaisedOnRecord =>
        /\ err.has_id
        /\ err.id = GetName(fn, tasks.items[idx + 1], idx + 1)
        /\ err.field # ""

(***************************************************************************)
(* C11.  A batch entry point handed something that is not a list raises a  *)
(* TypeError whose message names the argument and the shape expected of it *)
(* (a list of dictionaries), and it does so before anything else: no       *)
(* per-record operation runs (no value is collected, no advisory is        *)
(* emitted, no record error is raised) and calculate_total never runs.     *)
(***************************************************************************)
C11_NotAList ==
    (fn \in EntryPoints /\ ~tasks.isList) =>
        /\ pc = "raised"
        /\ err.exc = "TypeError"
        /\ err.field = (IF fn = "noise_exposure" THEN "tasks" ELSE "machines")
        /\ err.text = "must be a list of dictionaries"
        /\ idx = 0
        /\ exposures = <<>> /\ exposure_x = <<>> /\ exposure_y = <<>> /\ exposure_z = <<>>
        /\ warns = <<>>
        /\ total_calls = 0
        /\ result = NoResult

\* noise_exposure("not a list") has raised.
C11_Witness ==
    /\ fn = "noise_exposure"
    /\ ~tasks.isList
    /\ pc = "raised"
    /\ err.exc = "TypeError"

\* How many records the loop has computed and collected a value for.
Collected == IF fn = "vibrations_body" THEN Len(exposure_x) ELSE Len(exposures)

\* The first invalid element of the list is not a dict.
FirstInvalidIsNotADict ==
    /\ InCall
    /\ FirstInvalid(fn, tasks.items) # 0
    /\ ~tasks.items[FirstInvalid(fn, tasks.items)].dict

(***************************************************************************)
(* C12.  When the first invalid element of the list is a non-dict at       *)
(* position i (counted from 1 over all elements), the call raises a        *)
(* TypeError naming "entry #i"; when it is raised the i-1 records before   *)
(* it have each been computed, and calculate_total never runs.             *)
(***************************************************************************)
C12_EntryNumber ==
    FirstInvalidIsNotADict =>
        LET i == FirstInvalid(fn, tasks.items)
        IN /\ pc # "returned"
           /\ total_calls = 0
           /\ result = NoResult
           /\ pc = "raised" =>
                 /\ err.exc = "TypeError"
                 /\ err.field = "entry #"
                 /\ err.id = [label |-> Label(fn), n |-> i]
                 /\ err.text = "must be a dictionary"
                 /\ idx = i - 1
                 /\ Collected = i - 1

\* A list of three whose third element is not a dict: two records computed,
\* then "entry #3".
C12_Witness ==
    /\ FirstInvalidIsNotADict
    /\ pc = "raised"
    /\ FirstInvalid(fn, tasks.items) = 3
    /\ Collected = 2
    /\ err.id.n = 3

(***************************************************************************)
(* A batch call as a function of its arguments alone: the loop folded over *)
(* the list, then the aggregation.                                         *)
(***************************************************************************)
RECURSIVE LoopOver(_, _, _, _)
\* The loop run over the first n elements: the exception that ended it, the
\* advisories emitted and the per-record values collected.
LoopOver(f, self, items, n) ==
    IF n = 0 THEN [err |-> NoErr, warns |-> <<>>, vals |-> <<>>]
    ELSE LET before == LoopOver(f, self, items, n - 1)
             r == PerRecord(f, self, items[n], n)
         IN IF before.err # NoErr THEN before
            ELSE IF ~items[n].dict
            THEN [err |-> EntryError(f, n), warns |-> before.warns, vals |-> before.vals]
            ELSE IF r.err # NoErr
            THEN [err |-> r.err, warns |-> before.warns \o r.warns, vals |-> before.vals]
            ELSE [err |-> NoErr, warns |-> before.warns \o r.warns,
                  vals |-> Append(before.vals, r)]

\* What entry point f raises or returns for the argument arg with engine self.
BatchOutcome(f, arg, self) ==
    IF ~arg.isList THEN [err |-> NotAListError(f), res |-> NoResult]
    ELSE LET l == LoopOver(f, self, arg.items, Len(arg.items))
             n == Len(l.vals)
             t == IF f = "vibrations_body"
                  THEN Total(f, self, <<>>, [i \in 1..n |-> l.vals[i].Ax],
                             [i \in 1..n |-> l.vals[i].Ay], [i \in 1..n |-> l.vals[i].Az])
                  ELSE Total(f, self, [i \in 1..n |-> l.vals[i].val], <<>>, <<>>, <<>>)
         IN IF l.err # NoErr THEN [err |-> l.err, res |-> NoResult]
            ELSE [err |-> t.err, res |-> t.res]

Returned(f) == fn = f /\ tasks.isList /\ pc = "returned"

\* The root-sum-of-squares of a list at the model's resolution: the r with
\* r^2 <= sum of squares < (r+1)^2.
IsRSS(r, list) == r * r <= SumSquares(list) /\ SumSquares(list) < (r + 1) * (r + 1)

\* The greatest contribution of record i over the three axes.
RecordMaximum(i) ==
    CHOOSE m \in {exposure_x[i], exposure_y[i], exposure_z[i]} :
        \A v \in {exposure_x[i], exposure_y[i], exposure_z[i]} : m >= v

(***************************************************************************)
(* C13.  The whole-body aggregate exposure is the maximum over the three   *)
(* axes of the root-sum-of-squares of that axis's contributions across all *)
(* records: it is the RSS of one of the axes and at least the RSS of each; *)
(* it is never above the RSS taken across all axes nor above the RSS of    *)
(* the per-record maxima, and differs from them in general.                *)
(***************************************************************************)
C13_MaxAxisRSS ==
    Returned("vibrations_body") =>
        LET v == result.exposure_value
            axes == {exposure_x, exposure_y, exposure_z}
            n == Len(exposure_x)
        IN /\ result.exposure_type = "body"
           /\ \E a \in axes : IsRSS(v, a)
           /\ \A a \in axes : SumSquares(a) < (v + 1) * (v + 1)
           /\ v * v <= SumSquares(exposure_x) + SumSquares(exposure_y) + SumSquares(exposure_z)
           /\ v * v <= SumSquares([i \in 1..n |-> RecordMaximum(i)])

\* Two records governed by different axes: the result is the RSS of one axis,
\* below the RSS of the per-record maxima and below the RSS across the axes.
C13_Witness ==
    /\ Returned("vibrations_body")
    /\ Len(exposure_x) = 2
    /\ exposure_x[1] > exposure_z[1]
    /\ exposure_z[2] > exposure_x[2]
    /\ IsRSS(result.exposure_value, exposure_x)
    /\ ~IsRSS(result.exposure_value, [i \in 1..2 |-> RecordMaximum(i)])
    /\ ~IsRSS(result.exposure_value, exposure_x \o exposure_y \o exposure_z)

\* The orders in which n records can be listed.
Orderings(n) ==
    {p \in [1..n -> 1..n] : \A i \in 1..n : \A j \in 1..n : i # j => p[i] # p[j]}

\* The level noise_exposure returns for a list of records.
LevelOf(items) ==
    BatchOutcome("noise_exposure", [isList |-> TRUE, items |-> items], eng).res.exposure_value

\* The level calculate_total returns for a list of contributions.
CombinedLevel(list) == Noise_calculate_total(eng, list).res.exposure_value

(***************************************************************************)
(* C14.  Noise aggregation does not depend on the order or the grouping of *)
(* the records: the exposure returned for a list of valid records is the   *)
(* exposure returned for any permutation of it, and aggregating all        *)
(* records but the last and then aggregating that intermediate level with  *)
(* the last record's contribution gives the same exposure, to the          *)
(* resolution of the levels (0.01 dB: the intermediate level is a rounded  *)
(* number).                                                                *)
(***************************************************************************)
C14_OrderAndGrouping ==
    (Returned("noise_exposure") /\ Len(tasks.items) >= 1 /\ shown = NoShown) =>
        LET n == Len(tasks.items)
            v == result.exposure_value
        IN /\ \A p \in Orderings(n) : LevelOf([i \in 1..n |-> tasks.items[p[i]]]) = v
           /\ n >= 2 =>
                 LET grouped == CombinedLevel(<<LevelOf(SubSeq(tasks.items, 1, n - 1)),
                                               exposures[n]>>)
                 IN grouped - v \in -1..1

\* Three records with three different contributions, aggregated.
C14_Witness ==
    /\ Returned("noise_exposure")
    /\ Len(exposures) = 3
    /\ Cardinality({exposures[1], exposures[2], exposures[3]}) = 3
    /\ result.exposure_value > exposures[1]
    /\ result.exposure_value > exposures[2]
    /\ result.exposure_value > exposures[3]

(***************************************************************************)
(* C15.  Hand-arm aggregation is a root-sum-of-squares: the squared        *)
(* aggregate exposure is the sum of the squared contributions, so k        *)
(* identical contributions v give v*sqrt(k) and a single contribution v    *)
(* gives v.                                                                *)
(***************************************************************************)
C15_HandArmRSS ==
    Returned("vibrations_hand_arm") =>
        LET v == result.exposure_value
            k == Len(exposures)
        IN /\ result.exposure_type = "hand-arm"
           /\ IsRSS(v, exposures)
           /\ (k >= 1 /\ \A i \in 1..k : exposures[i] = exposures[1]) =>
                 /\ v * v <= k * exposures[1] * exposures[1]
                 /\ k * exposures[1] * exposures[1] < (v + 1) * (v + 1)
           /\ k = 1 => v = exposures[1]

\* Three identical non-zero contributions, aggregated to more than one of them.
C15_Witness ==
    /\ Returned("vibrations_hand_arm")
    /\ Len(exposures) = 3
    /\ exposures[1] > 0
    /\ exposures[2] = exposures[1]
    /\ exposures[3] = exposures[1]
    /\ result.exposure_value > exposures[1]
    /\ result.exposure_value < 2 * exposures[1]

\* a^2 + b^2 + c^2 of a record given by its axes.
SquaredMagnitude(e) == e.ax.v * e.ax.v + e.ay.v * e.ay.v + e.az.v * e.az.v

\* e1 supplies aw, e2 supplies the three axes, aw^2 = ax^2 + ay^2 + az^2 and
\* both last the same positive time.
SameVector(e1, e2) ==
    /\ e1.dict /\ e2.dict
    /\ NonNegative(e1.aw) /\ ~Present(e1.ax) /\ ~Present(e1.ay) /\ ~Present(e1.az)
    /\ ~Present(e2.aw) /\ NonNegative(e2.ax) /\ NonNegative(e2.ay) /\ NonNegative(e2.az)
    /\ e1.aw.v * e1.aw.v = SquaredMagnitude(e2)
    /\ Positive(e1.time) /\ e1.time = e2.time

\* The records of the model that describe the same vector as e in the other form.
Counterparts(e) == {o \in HandArmElements : SameVector(e, o) \/ SameVector(o, e)}

(***************************************************************************)
(* C16.  Axis / vector-magnitude equivalence: a hand-arm call on a single  *)
(* record supplying aw, with aw^2 = a^2 + b^2 + c^2, returns the same      *)
(* result (exposure and flags) as the call on the single record supplying  *)
(* ax = a, ay = b, az = c with the same time h, and the squared exposure   *)
(* is (a^2 + b^2 + c^2) * h / 8 at the model's resolution.                 *)
(***************************************************************************)
C16_AxisVectorEquivalence ==
    (Returned("vibrations_hand_arm") /\ Len(tasks.items) = 1) =>
        \A o \in Counterparts(tasks.items[1]) :
            LET v == result.exposure_value
                axes == IF Present(o.ax) THEN o ELSE tasks.items[1]
            IN /\ BatchOutcome(fn, [isList |-> TRUE, items |-> <<o>>], eng).err = NoErr
               /\ BatchOutcome(fn, [isList |-> TRUE, items |-> <<o>>], eng).res = result
               /\ 8 * v * v <= SquaredMagnitude(axes) * axes.time.v
               /\ SquaredMagnitude(axes) * axes.time.v < 8 * (v + 2) * (v + 2)

\* The call on {ax: 1.5, ay: 2.0, az: 0, time: 8} has returned 2.5, as the
\* call on {aw: 2.5, time: 8} does.
C16_Witness ==
    /\ Returned("vibrations_hand_arm")
    /\ Len(tasks.items) = 1
    /\ Present(tasks.items[1].ax)
    /\ Counterparts(tasks.items[1]) # {}
    /\ result.exposure_value = 2500

\* The same pair, met from the record that supplies aw.
C16_WitnessMagnitude ==
    /\ Returned("vibrations_hand_arm")
    /\ Len(tasks.items) = 1
    /\ Present(tasks.items[1].aw)
    /\ Counterparts(tasks.items[1]) # {}
    /\ result.exposure_value = 2500

\* The result types that offer a narrative (a to_display method).
HasNarrative(r) == r.type \in {"RateResult", "VibraResult", "NoiseResult"}

\* display was the last method called on the result the caller holds.
Displayed == HoldsResult /\ shown.op = "display"

(***************************************************************************)
(* C17 (as claimed).  display(result) prints the narrative text of the     *)
(* result it is given, for every result type that offers one (RateResult,  *)
(* VibraResult, NoiseResult), and fails only when the argument lacks that  *)
(* rendering; display of the result of a batch entry point prints that     *)
(* result's to_display text.                                               *)
(***************************************************************************)
C17_DisplayPrintsNarrative ==
    (Displayed /\ HasNarrative(Held)) =>
        /\ shown.err = NoErr
        /\ shown.out = ToDisplayOf(Held)

\* to_display was the last method called on a vibration or noise result.
Narrated ==
    /\ HoldsResult
    /\ shown.op = "to_display"
    /\ Held.type \in {"VibraResult", "NoiseResult"}

\* The highest tier a result exceeds, the threshold value of that tier and
\* the action level that goes with it.
HighestTier(r) ==
    IF r.type = "VibraResult"
    THEN IF r.exceeds_limit
         THEN [tier |-> "limit", value |-> Num(r.limit_value), advice |-> "immediate"]
         ELSE IF r.exceeds_action
         THEN [tier |-> "action", value |-> Num(r.action_value), advice |-> "preventive"]
         ELSE [tier |-> "none", value |-> None, advice |-> "none"]
    ELSE IF r.exceeds_limit
         THEN [tier |-> "limit", value |-> Num(r.limit_value), advice |-> "immediate"]
         ELSE IF r.exceeds_sup_action
         THEN [tier |-> "sup_action", value |-> Num(r.sup_action_value),
               advice |-> "preventive"]
         ELSE IF r.exceeds_inf_action
         THEN [tier |-> "inf_action", value |-> Num(r.inf_action_value),
               advice |-> "preventive"]
         ELSE [tier |-> "none", value |-> None, advice |-> "none"]

(***************************************************************************)
(* C18 (as claimed).  The narrative of a result names the highest          *)
(* threshold tier exceeded, quotes that tier's own threshold value and     *)
(* gives the matching action level: limit -> the limit value and immediate *)
(* action; an action tier only -> that action value and preventive         *)
(* measures; no tier -> no action required.                                *)
(***************************************************************************)
C18_NarrativeQuotesOwnTier ==
    Narrated =>
        /\ shown.err = NoErr
        /\ shown.out.tier = HighestTier(Held).tier
        /\ shown.out.quoted = HighestTier(Held).value
        /\ shown.out.advice = HighestTier(Held).advice

(***************************************************************************)
(* C19.  No library operation mutates an entity after its construction:    *)
(* __str__, to_dict, to_display and display leave every field of the       *)
(* result they are called on unchanged; the per-record and aggregation     *)
(* steps of a batch call leave the engine's threshold configuration and    *)
(* the caller's list and records unchanged, whether the call returns or    *)
(* raises; a returned result stays as it was returned.                     *)
(***************************************************************************)
C19_NoMutation ==
    [][/\ shown'.op # "none" => (result' = result /\ obj' = obj)
       /\ pc = "loop" => (eng' = eng /\ tasks' = tasks)
       /\ (pc \in {"returned", "raised"} /\ pc' = pc) =>
             (eng' = eng /\ tasks' = tasks /\ result' = result)
    ]_vars

\* to_display has been called on the result a batch call of two records
\* returned, and the result and the list are as they were.
C19_Witness ==
    /\ pc = "returned"
    /\ Len(tasks.items) = 2
    /\ shown.op = "to_display"
    /\ result = BatchOutcome(fn, tasks, eng).res
    /\ shown.out = ToDisplayOf(result)

(***************************************************************************)
(* C20.  A batch call is a deterministic function of its records and of    *)
(* the thresholds fixed at engine construction: however the call before it *)
(* ended (none, returned, raised), it starts from empty lists, and it      *)
(* returns the result (exposure value, thresholds, flags) or raises the    *)
(* error that this function gives for its arguments.                       *)
(***************************************************************************)
C20_Deterministic ==
    /\ (fn \in EntryPoints /\ pc = "loop" /\ idx = 0) =>
          /\ exposures = <<>> /\ exposure_x = <<>> /\ exposure_y = <<>> /\ exposure_z = <<>>
          /\ warns = <<>>
          /\ total_calls = 0
    /\ (fn \in EntryPoints /\ pc \in {"returned", "raised"}) =>
          LET outcome == BatchOutcome(fn, tasks, eng)
          IN /\ eng \in {Engine(fn, th) : th \in Thresholds(fn)}
             /\ result = outcome.res
             /\ err = outcome.err

\* A call of three records returned its result after a call that had failed.
C20_Witness ==
    /\ earlier = "raised"
    /\ pc = "returned"
    /\ Len(tasks.items) = 3
    /\ result = BatchOutcome(fn, tasks, eng).res
    /\ result.exposure_value > 0

\* A call failed with its record's error after a call that had returned.
C20_WitnessFailure ==
    /\ earlier = "returned"
    /\ pc = "raised"
    /\ idx = 1
    /\ err = BatchOutcome(fn, tasks, eng).err
    /\ err.has_id

(***************************************************************************)
(* Accident rates: what a call of a rate function returned or raised.      *)
(***************************************************************************)
\* The call of rate function f returned, and obj is the RateResult it gave.
RateReturned(f) == rate_call.fn = f /\ rate_call.err = NoErr

\* The call of rate function f raised, and the caller holds no result.
RateRaised(f) == rate_call.fn = f /\ rate_call.err # NoErr

\* sum(a) of an argument whose elements are numbers
SumOf(a) == SumValues(a.items)

\* The argument holds numbers only, none of them negative, and they sum to
\* more than 0.
ValidQuantity(a) ==
    /\ \A i \in 1..Len(a.items) : NonNegative(a.items[i])
    /\ SumOf(a) > 0

(***************************************************************************)
(* C21: the RateResult of safety_rate has factor = sum(hours_worked) for   *)
(* every valid input and, when no factor is supplied,                      *)
(* rate_value = (sum(workers) * 10^5 / sum(accidents)) / sum(hours_worked).*)
(***************************************************************************)
C21_FactorIsTotalHours ==
    RateReturned("safety_rate") =>
        LET num_accidents == rate_call.args[1]
            num_workers == rate_call.args[2]
            hours_worked == rate_call.args[3]
        IN /\ obj.factor = SumOf(hours_worked)
           /\ rate_call.factor = None =>
                obj.rate_value
                  = Ratio(SumOf(num_workers) * 100000, SumOf(num_accidents))
                      \div SumOf(hours_worked)

\* The rate functions of numerator and denominator, their result's name and
\* the factor each uses when none is given.
TwoSumRates == {"frequency_rate", "incidence_rate", "severity_rate"}

NameOfRate(f) ==
    IF f = "frequency_rate" THEN "Frequency Rate"
    ELSE IF f = "incidence_rate" THEN "Incidence Rate" ELSE "Severity Rate"

DefaultFactorOf(f) == IF f = "frequency_rate" THEN 1000000 ELSE 100000

\* The factor is absent or a positive number.
UsableFactor(factor) == factor = None \/ Positive(factor)

\* The calls of function f with the same factor whose numerators and
\* denominators hold numbers only and have the sums of args.
SameSums(f, args) ==
    {o \in RateArguments(f) :
        /\ \A k \in 1..2 : NumericDtype(o[k].items)
        /\ \A k \in 1..2 : SumOf(o[k]) = SumOf(args[k])}

C22_WitnessNegative ==
    /\ RateRaised("incidence_rate")
    /\ rate_call.args = <<ArrayLike(<<Num(-1), Num(6)>>), Scalar(Num(5))>>
    /\ rate_call.err.exc = "ValueError"

(***************************************************************************)
(* C25: a factor that is given and is not a number, or is zero or          *)
(* negative, makes the rate function raise ValueError and return nothing;  *)
(* the default factor is used only when the factor is None, so a result's  *)
(* factor is the given one whenever one is given.                          *)
(***************************************************************************)
C25_FactorRejected ==
    rate_call.fn \in RateFunctions =>
        /\ (rate_call.factor # None /\ ~Positive(rate_call.factor)) =>
              /\ rate_call.err.exc = "ValueError"
              /\ obj = NoResult
              /\ Rates_calculate(rate_call.args[1], rate_call.args[2],
                                 rate_call.factor).err # NoErr
        /\ (rate_call.err = NoErr /\ rate_call.factor # None) =>
              obj.factor = rate_call.factor.v
        /\ (rate_call.err = NoErr /\ rate_call.factor = None) =>
              obj.factor = IF rate_call.fn = "frequency_rate" THEN 1000000 ELSE 100000

\* severity_rate(5, 100000, factor=0) raised ValueError on otherwise valid
\* arguments.
C25_Witness ==
    /\ RateRaised("severity_rate")
    /\ rate_call.factor = Num(0)
    /\ rate_call.args = <<Scalar(Num(5)), Scalar(Num(100000))>>
    /\ rate_call.err = NativeError("ValueError", "Factor must be a positive numeric value.")
    /\ obj = NoResult

(***************************************************************************)
(* How the specification identifies the record at position i of the list:  *)
(* by its name, or as "Machine i" / "Task i" when it has none.             *)
(***************************************************************************)
IdentityOf(f, items, i) ==
    IF items[i].name # "" THEN [label |-> items[i].name, n |-> 0]
    ELSE [label |-> (IF f = "noise_exposure" THEN "Task" ELSE "Machine"), n |-> i]

\* The k-th smallest member of a set of positions.
Nth(positions, k) ==
    CHOOSE i \in positions : Cardinality({j \in positions : j < i}) = k - 1

C24_LaeqD ==
    (InCall /\ fn = "noise_exposure") =>
        /\ Len(exposures) = idx
        /\ \A i \in 1..idx :
              Positive(tasks.items[i].laeq_t) /\ Positive(tasks.items[i].time)
        /\ pc = "returned" => idx = Len(tasks.items)
        /\ (pc = "raised" /\ idx < Len(tasks.items) /\ tasks.items[idx + 1].dict) =>
              LET laeq_t == tasks.items[idx + 1].laeq_t
                  minutes == tasks.items[idx + 1].time
              IN /\ ~(Positive(laeq_t) /\ Positive(minutes))
                 /\ err.has_id
                 /\ ~IsNumeric(laeq_t) => err.exc = "TypeError" /\ err.field = "LAeq,T"
                 /\ (IsNumeric(laeq_t) /\ ~IsNumeric(minutes)) =>
                       err.exc = "TypeError" /\ err.field = "Exposure time"
                 /\ (IsNumeric(laeq_t) /\ IsNumeric(minutes)) => err.exc = "ValueError"

\* A record with a level and no "time" key was rejected by a TypeError that
\* names the exposure time, after a record of positive level and duration
\* had given its value.
C24_Witness ==
    /\ InCall /\ fn = "noise_exposure"
    /\ pc = "raised"
    /\ idx = 1
    /\ Len(exposures) = 1
    /\ Positive(tasks.items[2].laeq_t)
    /\ tasks.items[2].time = None
    /\ err.exc = "TypeError"
    /\ err.field = "Exposure time"

\* A record of level 0 and a record of duration 0 are each rejected by a
\* ValueError.
C24_WitnessZero ==
    /\ InCall /\ fn = "noise_exposure"
    /\ pc = "raised"
    /\ idx < Len(tasks.items)
    /\ tasks.items[idx + 1] \in {Task("", Num(0), Num(500)), Task("", Num(8000), Num(0))}
    /\ err.exc = "ValueError"

\* The call was made with the default thresholds.
DefaultThresholds == eng = Engine(fn, <<None, None, None>>)

(***************************************************************************)
(* C26: on the empty list vibrations_hand_arm and vibrations_body return a *)
(* result of exposure 0 whose two flags are false under the default        *)
(* thresholds; noise_exposure returns nothing: its one call of the         *)
(* aggregation raises the logarithm's error, no record having been read.   *)
(***************************************************************************)
C26_EmptyBatch ==
    (InCall /\ tasks.items = <<>> /\ pc \in {"returned", "raised"}) =>
        IF fn = "noise_exposure"
        THEN /\ pc = "raised"
             /\ result = NoResult
             /\ err = NativeError("ValueError", "math domain error")
             /\ total_calls = 1
             /\ idx = 0
             /\ warns = <<>>
        ELSE /\ pc = "returned"
             /\ err = NoErr
             /\ result.type = "VibraResult"
             /\ result.exposure_value = 0
             /\ DefaultThresholds => ~result.exceeds_action /\ ~result.exceeds_limit

\* noise_exposure([]) has raised from its aggregation step.
C26_Witness ==
    /\ InCall /\ fn = "noise_exposure"
    /\ tasks.items = <<>>
    /\ pc = "raised"
    /\ total_calls = 1
    /\ ~err.has_id

\* vibrations_body([]) has returned exposure 0 under the default thresholds.
C26_WitnessVibration ==
    /\ InCall /\ fn = "vibrations_body"
    /\ tasks.items = <<>>
    /\ pc = "returned"
    /\ DefaultThresholds
    /\ result.exposure_value = 0
    /\ ~result.exceeds_action

\* The list without its k-th element: the batch that the list extends by
\* one record put at position k.
Without(items, k) ==
    [i \in 1..(Len(items) - 1) |-> IF i < k THEN items[i] ELSE items[i + 1]]

\* Every flag that is set in result b is set in result r.
FlagsKept(b, r) ==
    IF r.type = "NoiseResult"
    THEN /\ b.exceeds_inf_action => r.exceeds_inf_action
         /\ b.exceeds_sup_action => r.exceeds_sup_action
         /\ b.exceeds_limit => r.exceeds_limit
    ELSE /\ b.exceeds_action => r.exceeds_action
         /\ b.exceeds_limit => r.exceeds_limit

(***************************************************************************)
(* C27: the result of a batch of valid records is never below the result   *)
(* that the same entry point, with the same thresholds, gives for the      *)
(* batch without one of its records, whichever record that is, as long as  *)
(* one record remains; every flag set for the smaller batch is set for it. *)
(***************************************************************************)
C27_ExtensionNeverLowers ==
    (/\ InCall
     /\ pc = "returned"
     /\ shown = NoShown
     /\ Len(tasks.items) >= 2
     /\ FirstInvalid(fn, tasks.items) = 0) =>
        \A k \in 1..Len(tasks.items) :
            LET smaller == AggregateOf(fn, eng, Without(tasks.items, k)).res
            IN /\ smaller.exposure_value <= result.exposure_value
               /\ FlagsKept(smaller, result)

\* A batch of three valid records exceeds the limit value which the batch
\* without its second record does not exceed.
C27_Witness ==
    /\ InCall
    /\ pc = "returned"
    /\ Len(tasks.items) = 3
    /\ FirstInvalid(fn, tasks.items) = 0
    /\ result.exceeds_limit
    /\ LET smaller == AggregateOf(fn, eng, Without(tasks.items, 2)).res
       IN /\ ~smaller.exceeds_limit
          /\ 0 < smaller.exposure_value
          /\ smaller.exposure_value < result.exposure_value

(***************************************************************************)
(* C28: the step on which a batch call aborts emits no advisory, and the   *)
(* advisories emitted before it, one for each earlier record that lasts    *)
(* longer than the reference window, stay emitted.                         *)
(***************************************************************************)
C28_AbortKeepsAdvisories ==
    [][(InCall /\ pc = "loop" /\ pc' = "raised") =>
          /\ warns' = warns
          /\ warns' = AdvisoriesUpTo(fn, tasks.items, idx)
          /\ Len(warns') = Cardinality({i \in 1..idx : OverDuration(fn, tasks.items[i])})]_vars

\* A batch aborted on its third record, itself of more than the reference
\* window, with the advisory of its second record emitted and no other.
C28_Witness ==
    /\ InCall
    /\ pc = "raised"
    /\ idx = 2
    /\ err.has_id
    /\ IsNumeric(tasks.items[3].time)
    /\ tasks.items[3].time.v > ReferenceWindow(fn)
    /\ Len(warns) = 1
    /\ warns[1].id = GetName(fn, tasks.items[2], 2)

(***************************************************************************)
(* C29: a NoiseResult that noise_exposure returns (the one that            *)
(* NoiseExposure.calculate_total builds) has no protected value, is not    *)
(* marked as under hearing protection, and has its three flags computed    *)
(* from its exposure value; a protected value is found only in a result    *)
(* that the caller constructed.                                            *)
(***************************************************************************)
C29_NeverProtected ==
    /\ result.type = "NoiseResult" =>
          /\ result.protected_exposure_value = None
          /\ result.with_hearing_protection = FALSE
          /\ FlagsFrom(result, result.exposure_value)
    /\ (pc = "returned" /\ fn = "noise_exposure") => result.type = "NoiseResult"
    /\ \A r \in NoiseResults : r.protected_exposure_value # None => r = obj /\ r # result

\* noise_exposure returned a result at or above the limit value: all three
\* flags set, no protected value.
C29_Witness ==
    /\ pc = "returned"
    /\ fn = "noise_exposure"
    /\ Len(tasks.items) >= 1
    /\ result.exceeds_limit
    /\ result.protected_exposure_value = None
    /\ ~result.with_hearing_protection

\* A directly constructed NoiseResult holds a protected value.
C29_WitnessDirect ==
    /\ obj.type = "NoiseResult"
    /\ obj.with_hearing_protection
    /\ Truthy(obj.protected_exposure_value)

(***************************************************************************)
(* The checks that the specification lists for one record, in its order.   *)
(* Each is the field it is about, what it finds wrong with it, and whether *)
(* the record fails it taken on its own.                                   *)
(***************************************************************************)
Check(field, kind, fails) == [field |-> field, kind |-> kind, fails |-> fails]

AxisChecks(val, name) ==
    << Check(name, "missing", ~Present(val)),
       Check(name, "non-numeric", ~IsNumeric(val)),
       Check(name, "sign", IsNumeric(val) /\ val.v < 0) >>

DurationCheck(e) == Check("Exposure time", "sign", IsNumeric(e.time) /\ e.time.v <= 0)

ChecksOf(f, e) ==
    IF f = "vibrations_hand_arm"
    THEN << Check("aw, ax, ay, az", "conflict",
                  Present(e.aw) /\ (Present(e.ax) \/ Present(e.ay) \/ Present(e.az))) >>
         \o (IF ~Present(e.aw)
             THEN AxisChecks(e.ax, "ax") \o AxisChecks(e.ay, "ay") \o AxisChecks(e.az, "az")
             ELSE << Check("aw", "non-numeric", ~IsNumeric(e.aw)),
                     Check("aw", "sign", IsNumeric(e.aw) /\ e.aw.v < 0) >>)
         \o << DurationCheck(e) >>
    ELSE IF f = "vibrations_body"
    THEN AxisChecks(e.ax, "ax") \o AxisChecks(e.ay, "ay") \o AxisChecks(e.az, "az")
         \o << DurationCheck(e) >>
    ELSE << Check("LAeq,T", "non-numeric", ~IsNumeric(e.laeq_t)),
            Check("Exposure time", "non-numeric", ~IsNumeric(e.time)),
            Check("LAeq,T", "sign", IsNumeric(e.laeq_t) /\ e.laeq_t.v <= 0),
            DurationCheck(e) >>

\* The positions of the checks that record e fails.
Failing(f, e) == {k \in 1..Len(ChecksOf(f, e)) : ChecksOf(f, e)[k].fails}

\* The first check that record e fails.
FirstFailing(f, e) ==
    ChecksOf(f, e)[CHOOSE k \in Failing(f, e) : \A j \in Failing(f, e) : k <= j]

\* What an error finds wrong with its field.
KindOf(error) ==
    IF error.text = "Missing required axis value" THEN "missing"
    ELSE IF error.field = "aw, ax, ay, az" THEN "conflict"
    ELSE IF error.exc = "TypeError" THEN "non-numeric"
    ELSE "sign"

(***************************************************************************)
(* C30: the error raised on a record is that of the first check, in the    *)
(* specification's order, that the record fails: for hand-arm the          *)
(* conflict of aw with an axis, then ax, ay, az in turn (missing,          *)
(* non-numeric, negative) or aw (non-numeric, negative), then the          *)
(* duration; for noise the level's type, the duration's type, the level's  *)
(* sign, the duration's sign.  A record that gave its value or its         *)
(* advisory failed none.                                                   *)
(***************************************************************************)
C30_FirstFailingCheck ==
    InCall =>
        /\ \A i \in 1..idx : Failing(fn, tasks.items[i]) = {}
        /\ (pc = "raised" /\ idx < Len(tasks.items) /\ tasks.items[idx + 1].dict) =>
              LET e == tasks.items[idx + 1]
              IN IF Failing(fn, e) # {}
                 THEN /\ err.has_id
                      /\ err.field = FirstFailing(fn, e).field
                      /\ KindOf(err) = FirstFailing(fn, e).kind
                 ELSE ~IsNumeric(e.time) /\ fn # "noise_exposure"

\* The hand-arm record with a negative ax and no ay was rejected for its ax.
C30_Witness ==
    /\ InCall /\ fn = "vibrations_hand_arm"
    /\ pc = "raised"
    /\ idx < Len(tasks.items)
    /\ tasks.items[idx + 1] = Machine("", None, Num(-1000), None, Num(2000), Num(9))
    /\ Cardinality(Failing(fn, tasks.items[idx + 1])) >= 2
    /\ err.field = "ax"
    /\ err.exc = "ValueError"

\* The noise record with a level of 0 and a duration that is not a number
\* was rejected for the type of its duration.
C30_WitnessNoise ==
    /\ InCall /\ fn = "noise_exposure"
    /\ pc = "raised"
    /\ idx < Len(tasks.items)
    /\ tasks.items[idx + 1] = Task("", Num(0), Str)
    /\ err.field = "Exposure time"
    /\ err.exc = "TypeError"

=============================================================================
